---------------------------- MODULE Spec2Model ----------------------------
(***************************************************************************)
(* BLE central client of esp32-ble-cliente-central (ble_client.py,         *)
(* ble_handlers.py, state_machine.py, adv_parser.py, ble_constants.py) as  *)
(* a state machine.  One action per public method of BLESensorClient and   *)
(* one per stack event dispatched by BLESensorClient.ble_irq.              *)
(*                                                                         *)
(* The BLE stack (MicroPython `bluetooth.BLE`) is the environment.  It is  *)
(* kept as four variables (stk_scan, stk_connecting, stk_links, stk_proc)  *)
(* that record what the client's commands asked it to do; it delivers an   *)
(* event only when that makes sense for it: scan results while it scans,   *)
(* a connect-complete or a failed-connect disconnect after gap_connect, a  *)
(* disconnect for a link that is up, discovery results and exactly one     *)
(* done event for a discovery procedure that is outstanding.               *)
(*                                                                         *)
(* Python values: None is <<>>, an optional integer h is <<h>>, a byte     *)
(* string or str is a sequence of byte values / ASCII codes, a UUID is the *)
(* sequence of its little-endian bytes (2 for a 16-bit, 16 for a 128-bit). *)
(***************************************************************************)
EXTENDS Integers, Sequences, FiniteSets, TLC

\* ------------------------------------------------------------------------
\* ble_constants.py
\* ------------------------------------------------------------------------
STATE_IDLE == 0
STATE_SCANNING == 1
STATE_CONNECTING == 2
STATE_CONNECTED == 3
STATE_DISCOVERING == 4
STATE_READY == 5
STATE_ERROR == 6
STATE_RECONNECTING == 7

States == STATE_IDLE..STATE_RECONNECTING

STATE_NAMES ==
  <<"IDLE", "SCANNING", "CONNECTING", "CONNECTED",
    "DISCOVERING", "READY", "ERROR", "RECONNECTING">>

\* bluetooth.UUID("6E400000-B5A3-F393-E0A9-E50E24DCCA9E"), little-endian bytes
SENSOR_SERVICE_UUID ==
  <<158, 202, 220, 36, 14, 229, 169, 224, 147, 243, 163, 181, 0, 0, 64, 110>>

\* the source gives the characteristic the same UUID as the service
ANALOG_VALUE_CHAR_UUID ==
  <<158, 202, 220, 36, 14, 229, 169, 224, 147, 243, 163, 181, 0, 0, 64, 110>>

\* bluetooth.UUID(0x2902)
CCCD_UUID == <<2, 41>>

NOTIFY_ENABLE == 1

\* DEFAULT_CONFIG['rssi_threshold']
RssiThreshold == -85

\* the ceiling of `if self.error_count > 15` in ble_irq
ErrorCeiling == 15

\* ------------------------------------------------------------------------
\* Bounds of the model
\* ------------------------------------------------------------------------
\* config['max_retries'] of the modelled client instance
MaxRetries == 1

\* cap of stats['connections'] and stats['disconnections']
MaxLinkEvents == 2

\* cap of stats['devices_analyzed'] within one scan
MaxScanned == 1

\* cap of stats['notifications'] and stats['reads']
MaxData == 1

\* cap of stats['errors'] (total handler exceptions of a run)
MaxErrors == 17

\* cap of the complete records in an advertising buffer handed to the parser
MaxRecords == 2

\* ------------------------------------------------------------------------
\* Python values
\* ------------------------------------------------------------------------
None == <<>>

Some(x) == <<x>>

\* Python truthiness of an optional integer: None and 0 are falsy
Truthy(h) == h # None /\ h[1] # 0

Range(s) == {s[i] : i \in 1..Len(s)}

\* str.lower() on ASCII codes
LowerChar(c) == IF c >= 65 /\ c <= 90 THEN c + 32 ELSE c

Lower(s) == [i \in 1..Len(s) |-> LowerChar(s[i])]

\* a variant of the slice that also takes the element at b
SliceInclusive(s, a, b) ==
  LET hi == IF b + 1 > Len(s) THEN Len(s) ELSE b + 1
  IN  IF a >= hi THEN <<>> ELSE [i \in 1..(hi - a) |-> s[a + i]]

\* Python slice s[a:b] with 0-based a, b (clamped like Python)
Slice(s, a, b) ==
  LET hi == IF b > Len(s) THEN Len(s) ELSE b
  IN  IF a >= hi THEN <<>> ELSE [i \in 1..(hi - a) |-> s[a + i]]

\* `needle in hay` for str
Contains(hay, needle) ==
  \E k \in 0..Len(hay) :
     k + Len(needle) <= Len(hay) /\ Slice(hay, k, k + Len(needle)) = needle

HexDigit(n) == IF n < 10 THEN 48 + n ELSE 87 + n

\* '%02x' % b
Hex2(b) == <<HexDigit(b \div 16), HexDigit(b % 16)>>

RECURSIVE JoinHex(_)
\* ':'.join(['%02x' % b for b in addr])
JoinHex(addr) ==
  IF Len(addr) = 0 THEN <<>>
  ELSE IF Len(addr) = 1 THEN Hex2(addr[1])
  ELSE Hex2(addr[1]) \o <<58>> \o JoinHex(Tail(addr))

\* ------------------------------------------------------------------------
\* adv_parser.py
\* ------------------------------------------------------------------------
\* number of continuation bytes a UTF-8 lead byte announces (-1: not a lead)
Utf8Need(b) ==
  IF b < 128 THEN 0
  ELSE IF b >= 194 /\ b <= 223 THEN 1
  ELSE IF b >= 224 /\ b <= 239 THEN 2
  ELSE IF b >= 240 /\ b <= 244 THEN 3
  ELSE 0 - 1

RECURSIVE Utf8Valid(_)
\* whether bytes.decode('utf-8') succeeds
Utf8Valid(bs) ==
  IF Len(bs) = 0 THEN TRUE
  ELSE LET n == Utf8Need(bs[1])
       IN  /\ n >= 0
           /\ Len(bs) >= 1 + n
           /\ \A k \in 2..(1 + n) : bs[k] >= 128 /\ bs[k] <= 191
           /\ Utf8Valid(Slice(bs, 1 + n, Len(bs)))

RECURSIVE NameFromUnbounded(_, _)
\* a variant of the loop below that stops on a zero length only
NameFromUnbounded(adv, i) ==
  IF ~(i < Len(adv) - 1) THEN None
  ELSE LET length == adv[i + 1]
       IN  IF length = 0 THEN None
           ELSE LET data_type == adv[i + 2]
                    name_data == Slice(adv, i + 2, i + 1 + length)
                IN  IF data_type \in {8, 9} /\ Utf8Valid(name_data)
                    THEN Some(name_data)
                    ELSE NameFromUnbounded(adv, i + 1 + length)

RECURSIVE NameFrom(_, _)
\* the while loop of extract_device_name from 0-based position i
NameFrom(adv, i) ==
  IF ~(i < Len(adv) - 1) THEN None
  ELSE LET length == adv[i + 1]
       IN  IF length = 0 \/ i + length >= Len(adv) THEN None
           ELSE LET data_type == adv[i + 2]
                    name_data == Slice(adv, i + 2, i + 1 + length)
                IN  IF data_type \in {8, 9} /\ Utf8Valid(name_data)
                    THEN Some(name_data)
                    ELSE NameFrom(adv, i + 1 + length)

\* AdvertisementParser.extract_device_name: None or Some(name)
ExtractDeviceName(adv) == NameFrom(adv, 0)

RECURSIVE Uuids16BigEndian(_, _)
\* a variant of the loop below that reads the first byte as the high one
Uuids16BigEndian(d, j) ==
  IF j >= Len(d) THEN <<>>
  ELSE IF j + 1 < Len(d)
       THEN LET uuid_val == 256 * d[j + 1] + d[j + 2]
            IN  <<(<<uuid_val % 256, uuid_val \div 256>>)>>
                \o Uuids16BigEndian(d, j + 2)
       ELSE Uuids16BigEndian(d, j + 2)

RECURSIVE Uuids16(_, _)
\* for j in range(0, len(uuid_data), 2): if j + 1 < len(uuid_data): ...
Uuids16(d, j) ==
  IF j >= Len(d) THEN <<>>
  ELSE IF j + 1 < Len(d)
       THEN LET uuid_val == d[j + 1] + 256 * d[j + 2]
            IN  <<(<<uuid_val % 256, uuid_val \div 256>>)>> \o Uuids16(d, j + 2)
       ELSE Uuids16(d, j + 2)

RECURSIVE Uuids128(_, _)
\* for j in range(0, len(uuid_data), 16): if j + 15 < len(uuid_data): ...
Uuids128(d, j) ==
  IF j >= Len(d) THEN <<>>
  ELSE IF j + 15 < Len(d)
       THEN <<Slice(d, j, j + 16)>> \o Uuids128(d, j + 16)
       ELSE Uuids128(d, j + 16)

RECURSIVE UuidsFrom(_, _)
\* the while loop of extract_service_uuids from 0-based position i
UuidsFrom(adv, i) ==
  IF ~(i < Len(adv) - 1) THEN <<>>
  ELSE LET length == adv[i + 1]
       IN  IF length = 0 \/ i + length >= Len(adv) THEN <<>>
           ELSE LET data_type == adv[i + 2]
                    uuid_data == Slice(adv, i + 2, i + 1 + length)
                    here == IF data_type \in {2, 3} THEN Uuids16(uuid_data, 0)
                            ELSE IF data_type \in {6, 7} THEN Uuids128(uuid_data, 0)
                            ELSE <<>>
                IN  here \o UuidsFrom(adv, i + 1 + length)

\* AdvertisementParser.extract_service_uuids: sequence of UUIDs
ExtractServiceUuids(adv) == UuidsFrom(adv, 0)

\* a variant of is_target_device that compares names as they are written
IsTargetCaseSensitive(addr_str, device_name, service_uuids, target_mac, target_name, target_service_uuid) ==
  \/ /\ target_mac # None /\ Len(target_mac[1]) > 0
     /\ Lower(addr_str) = Lower(target_mac[1])
  \/ /\ target_name # None /\ Len(target_name[1]) > 0
     /\ device_name # None /\ Len(device_name[1]) > 0
     /\ Contains(device_name[1], target_name[1])
  \/ Len(service_uuids) > 0 /\ target_service_uuid \in Range(service_uuids)

\* AdvertisementParser.is_target_device; target_mac / target_name are None
\* or Some(str), device_name is None or Some(str)
is_target_device(addr_str, device_name, service_uuids, target_mac, target_name, target_service_uuid) ==
  IF target_mac # None /\ Len(target_mac[1]) > 0
     /\ Lower(addr_str) = Lower(target_mac[1])
  THEN TRUE
  ELSE IF /\ target_name # None /\ Len(target_name[1]) > 0
          /\ device_name # None /\ Len(device_name[1]) > 0
          /\ Contains(Lower(device_name[1]), Lower(target_name[1]))
  THEN TRUE
  ELSE IF Len(service_uuids) > 0 /\ target_service_uuid \in Range(service_uuids)
  THEN TRUE
  ELSE FALSE

\* ------------------------------------------------------------------------
\* State
\* ------------------------------------------------------------------------
VARIABLES
  \* StateMachine.state and StateMachine.state_timestamp (ms)
  state, state_timestamp,
  \* BLESensorClient fields
  ble, conn_handle, service_handles, char_handle, cccd_handle,
  target_device, target_found, retry_count, error_count,
  service_discovered, char_discovered, notifications_enabled,
  auto_reconnect, stats,
  \* constructor arguments
  target_mac, device_name,
  \* the stack: scan activity, a connect in flight, the links that are up,
  \* the discovery procedure outstanding on each link
  stk_scan, stk_connecting, stk_links, stk_proc,
  \* the last call of the advertisement parser or of the memory manager
  \* made on its own: the function, its arguments and what it returned
  call,
  \* time.ticks_ms(), and where the driver conectar_dispositivo is: "off"
  \* (its loop not entered), "polling", "returned_client", "returned_none"
  now, driver,
  \* the peripheral (BLESimplePeripheral behind BLEHandler): _conn_handle,
  \* the centrals the stack has connected, the last operation with what it
  \* returned, the readings and the message of the last send_data, the
  \* frame handed to gatts_notify and the handle it was sent to
  per,
  \* the last operation: its name, what it returned, the stack calls it made
  \* (in order, with whether each returned or raised), the states the
  \* machine went through during it (first the state it started in)
  op, ret, cmds, trail,
  \* history: disconnect events handled since the last connect-complete
  \* event, whether a matching service / characteristic result arrived on
  \* the current connection, whether a done event has found its result
  \* absent since the last connect-complete event, handler exceptions since
  \* the last recovery, targets recorded since the last gap_scan call that
  \* returned, the gc.mem_free() value init_ble sampled
  hist

prog ==
  <<state, state_timestamp, ble, conn_handle, service_handles, char_handle, cccd_handle,
    target_device, target_found, retry_count, error_count,
    service_discovered, char_discovered, notifications_enabled,
    auto_reconnect, stats>>

ctor == <<target_mac, device_name>>

stack == <<stk_scan, stk_connecting, stk_links, stk_proc>>

obs == <<op, ret, cmds, trail>>

drv == <<now, driver>>

vars == <<prog, ctor, stack, obs, hist, call, drv, per>>

\* connection handles the stack may assign
ConnHandles == {0, 1}

\* the handle of a PERIPHERAL_DISCONNECT that reports a failed connect
NoConn == 256 * 256 - 1

\* "c0:5d" (addresses are shortened to two bytes)
MacC05D == <<99, 48, 58, 53, 100>>

\* "Server"
NameServer == <<83, 101, 114, 118, 101, 114>>

AdvFlags == <<2, 1, 6>>

\* flags, then the complete name "ADC-Server"
AdvAdcServer == AdvFlags \o <<11, 9, 65, 68, 67, 45>> \o NameServer

\* flags, then the complete name "X1"
AdvOther == AdvFlags \o <<3, 9, 88, 49>>

\* the devices in range: one the target address matches, one the target
\* name matches, one nothing matches
Candidates ==
  {<<(<<192, 93>>), AdvOther>>, <<(<<132, 172>>), AdvAdcServer>>,
   <<(<<132, 172>>), AdvOther>>}

\* GATT handles and UUIDs carried by discovery events
ServiceRanges == {<<1, 4>>}

ValueHandles == {2}

DescriptorHandles == {3}

OTHER_UUID == <<10, 24>>

\* BLESensorClient.__init__: self.stats
InitStats ==
  [connections |-> 0, disconnections |-> 0, notifications |-> 0,
   reads |-> 0, errors |-> 0, devices_analyzed |-> 0]

\* BLESensorClient.__init__ and StateMachine.__init__
InitProg ==
  /\ state = STATE_IDLE
  /\ state_timestamp = 0
  /\ ble = None
  /\ conn_handle = None
  /\ service_handles = None
  /\ char_handle = None
  /\ cccd_handle = None
  /\ target_device = None
  /\ target_found = FALSE
  /\ retry_count = 0
  /\ error_count = 0
  /\ service_discovered = FALSE
  /\ char_discovered = FALSE
  /\ notifications_enabled = FALSE
  /\ auto_reconnect = TRUE
  /\ stats = InitStats

\* BLESimplePeripheral.__init__: no central recorded, nothing sent yet
InitPer ==
  [conn_handle |-> None, centrals |-> {}, op |-> "new", ret |-> "None",
   analog_data |-> <<>>, message |-> None, frame |-> None, to |-> None]

InitStack ==
  /\ stk_scan = "off"
  /\ stk_connecting = FALSE
  /\ stk_links = {}
  /\ stk_proc = [h \in ConnHandles |-> "none"]

\* no parser call made on its own
NoCall == [f |-> "none"]

InitHist ==
  [consec_disc |-> 0, got_service |-> FALSE, got_char |-> FALSE,
   absent |-> FALSE, exc |-> 0, recorded |-> 0, free_mem |-> None,
   done |-> None]

Init ==
  /\ InitProg
  /\ InitStack
  /\ target_mac = Some(MacC05D)
  /\ device_name = Some(NameServer)
  /\ op = "new"
  /\ ret = "None"
  /\ cmds = <<>>
  /\ trail = <<STATE_IDLE>>
  /\ hist = InitHist
  /\ call = NoCall
  /\ now = 0
  /\ driver = "off"
  /\ per = InitPer

Last(tr) == tr[Len(tr)]

\* a variant of change_state that keeps only the state it enters
ChangeStateNoPath(tr, new_state) == <<new_state>>

\* StateMachine.change_state, on the sequence of states the machine has
\* been in during the running operation (the entry timestamp and
\* previous_state, which only the duration and timeout queries read, are
\* not kept)
change_state(tr, new_state) ==
  IF new_state # Last(tr) THEN Append(tr, new_state) ELSE tr

\* the operation went through tr and ends in its last state
Moved(tr) ==
  /\ state' = Last(tr)
  /\ trail' = tr
  /\ state_timestamp' = IF Len(tr) > 1 THEN now ELSE state_timestamp

\* the operation never called change_state
Stay == Moved(<<state>>)

\* one stack call: its name, its arguments, and whether it returned (TRUE)
\* or raised (FALSE)
Cmd(name, args, ok) == [c |-> name, a |-> args, ok |-> ok]

\* the names of the calls of cs, and of those that returned
CmdNames(cs) == {cs[i].c : i \in 1..Len(cs)}

Accepted(cs) == {cs[i].c : i \in {j \in 1..Len(cs) : cs[j].ok}}

\* a call that addresses a link can only return for a link that is up
\* (with None for the handle the binding raises TypeError)
LinkUp(links, h) == h # None /\ h[1] \in links

\* ------------------------------------------------------------------------
\* ble_client.py: the public methods
\* ------------------------------------------------------------------------
\* a variant of the state test that lets only Idle through
ScanAllowedIdleOnly(st) == st = STATE_IDLE

\* a variant of the state test that also lets Ready through
ScanAllowedAlsoReady(st) == st \in {STATE_IDLE, STATE_ERROR, STATE_READY}

\* the state test at the top of scan_devices
ScanAllowed(st) == st \in {STATE_IDLE, STATE_ERROR}

\* a variant of the test below without the state comparison
NotReadyForIoNoState(st, ch) == ~Truthy(ch)

\* the test at the top of read_characteristic / write_characteristic
NotReadyForIo(st, ch) == st # STATE_READY \/ ~Truthy(ch)

\* the test at the top of disconnect: `if self.conn_handle:`
HasConnection(h) == Truthy(h)

\* BLESensorClient.is_ready
is_ready ==
  state = STATE_READY /\ char_handle # None /\ conn_handle # None

\* DEFAULT_CONFIG['memory_threshold']
memory_threshold == 40000

\* the gc.mem_free() values init_ble is called with
FreeMems == {memory_threshold - 1, memory_threshold}

\* a variant of the headroom test that also refuses at the threshold
LowMemoryAtThreshold(free_mem) == free_mem <= memory_threshold

\* init_ble's headroom test
LowMemory(free_mem) == free_mem < memory_threshold

\* BLESensorClient.init_ble.  free_mem: what gc.mem_free() returns after
\* gc.collect(); fail: the try block raises before the callback is
\* attached.  The drivers call it once, right after construction (and so
\* after a restart).
init_ble(free_mem, fail) ==
  /\ op \in {"new", "machine_reset"}
  /\ op' = "init_ble"
  /\ cmds' = <<>>
  /\ hist' = [hist EXCEPT !.free_mem = Some(free_mem)]
  /\ IF LowMemory(free_mem)
     THEN /\ ret' = "False"
          /\ Stay
          /\ UNCHANGED ble
     ELSE IF fail
     THEN /\ ret' = "False"
          /\ Moved(change_state(<<state>>, STATE_ERROR))
          /\ UNCHANGED ble
     ELSE /\ ret' = "True"
          /\ ble' = Some(1)
          /\ Moved(change_state(<<state>>, STATE_IDLE))
  /\ UNCHANGED <<conn_handle, service_handles, char_handle, cccd_handle,
                 target_device, target_found, retry_count, error_count,
                 service_discovered, char_discovered, notifications_enabled,
                 auto_reconnect, stats>>
  /\ UNCHANGED <<ctor, stack, call, drv, per>>

\* BLESensorClient.scan_devices.  ok: gap_scan returns (it raises when ok is
\* FALSE; it cannot return when self.ble is None)
scan_devices(ok) ==
  /\ ok => ble # None
  /\ op' = "scan_devices"
  /\ IF ~ScanAllowed(state)
     THEN /\ ret' = "False"
          /\ cmds' = <<>>
          /\ Stay
          /\ UNCHANGED <<target_found, target_device, stats, stk_scan, hist>>
     ELSE /\ target_found' = FALSE
          /\ hist' = [hist EXCEPT !.recorded = IF ok THEN 0 ELSE @]
          /\ target_device' = None
          /\ stats' = [stats EXCEPT !.devices_analyzed = 0]
          /\ cmds' = <<Cmd("gap_scan", <<>>, ok)>>
          /\ IF ok
             THEN /\ Moved(change_state(<<state>>, STATE_SCANNING))
                  /\ stk_scan' = "on"
                  /\ ret' = "True"
             ELSE /\ Moved(change_state(change_state(<<state>>, STATE_SCANNING),
                                        STATE_ERROR))
                  /\ UNCHANGED stk_scan
                  /\ ret' = "False"
  /\ UNCHANGED <<ble, conn_handle, service_handles, char_handle, cccd_handle,
                 retry_count, error_count, service_discovered,
                 char_discovered, notifications_enabled, auto_reconnect>>
  /\ UNCHANGED <<ctor, stk_connecting, stk_links, stk_proc, call, drv, per>>

\* read_characteristic (name = "gattc_read") and main.py's
\* write_characteristic (name = "gattc_write"): the same test, then one
\* stack call on (conn_handle, char_handle)
CharacteristicIo(name, ok) ==
  /\ ok => (ble # None /\ LinkUp(stk_links, conn_handle))
  /\ IF NotReadyForIo(state, char_handle)
     THEN /\ ret' = "False"
          /\ cmds' = <<>>
     ELSE /\ cmds' = <<Cmd(name, <<conn_handle, char_handle>>, ok)>>
          /\ ret' = IF ok THEN "True" ELSE "False"
  /\ trail' = <<state>>
  /\ UNCHANGED <<prog, ctor, stack, hist, call, drv, per>>

\* BLESensorClient.read_characteristic
read_characteristic(ok) ==
  /\ op' = "read_characteristic"
  /\ CharacteristicIo("gattc_read", ok)

\* BLESensorClient.write_characteristic (main.py)
write_characteristic(ok) ==
  /\ op' = "write_characteristic"
  /\ CharacteristicIo("gattc_write", ok)

\* BLESensorClient.disconnect.  ok: gap_disconnect returns
disconnect(ok) ==
  /\ ok => (ble # None /\ LinkUp(stk_links, conn_handle))
  /\ op' = "disconnect"
  /\ IF HasConnection(conn_handle)
     THEN /\ auto_reconnect' = FALSE
          /\ cmds' = <<Cmd("gap_disconnect", <<conn_handle>>, ok)>>
          /\ ret' = IF ok THEN "True" ELSE "False"
     ELSE /\ ret' = "False"
          /\ cmds' = <<>>
          /\ UNCHANGED auto_reconnect
  /\ Stay
  /\ UNCHANGED <<ble, conn_handle, service_handles, char_handle, cccd_handle,
                 target_device, target_found, retry_count, error_count,
                 service_discovered, char_discovered, notifications_enabled,
                 stats>>
  /\ UNCHANGED <<ctor, stack, hist, call, drv, per>>

\* ------------------------------------------------------------------------
\* ble_client.py / ble_handlers.py: helpers the handlers call
\* ------------------------------------------------------------------------
\* a variant of _reset_connection_state that clears the handles only
ResetHandlesOnly ==
  /\ service_handles' = None
  /\ char_handle' = None
  /\ cccd_handle' = None
  /\ UNCHANGED <<service_discovered, char_discovered, notifications_enabled>>

\* BLESensorClient._reset_connection_state
ResetConnectionState ==
  /\ service_handles' = None
  /\ char_handle' = None
  /\ cccd_handle' = None
  /\ service_discovered' = FALSE
  /\ char_discovered' = FALSE
  /\ notifications_enabled' = FALSE

\* a variant of _stop_scan that makes no stack call
StopScanSilent(tr, ok) == [tr |-> tr, cmds |-> <<>>]

\* BLESensorClient._stop_scan after the states tr.  ok: gap_scan(None)
\* returns
stop_scan(tr, ok) ==
  [tr   |-> IF ok THEN change_state(tr, STATE_IDLE) ELSE tr,
   cmds |-> <<Cmd("gap_scan_stop", <<>>, ok)>>]

\* a variant of _start_connection that returns at once when it is called
\* in Reconnecting
StartConnectionNotReconnecting(tr, td, rc, ok) ==
  IF td = None \/ Last(tr) = STATE_RECONNECTING
  THEN [tr |-> tr, retry_count |-> rc, cmds |-> <<>>, issued |-> FALSE]
  ELSE [tr   |-> IF ok THEN change_state(tr, STATE_CONNECTING)
                 ELSE change_state(change_state(tr, STATE_CONNECTING),
                                   STATE_ERROR),
        retry_count |-> 0,
        cmds |-> <<Cmd("gap_connect", <<Some(td[1].addr_type), td[1].addr>>, ok)>>,
        issued |-> ok]

\* BLESensorClient._start_connection after the states tr, with target td
\* and retry counter rc.  ok: gap_connect returns
start_connection(tr, td, rc, ok) ==
  IF td = None
  THEN [tr |-> tr, retry_count |-> rc, cmds |-> <<>>, issued |-> FALSE]
  ELSE [tr   |-> IF ok THEN change_state(tr, STATE_CONNECTING)
                 ELSE change_state(change_state(tr, STATE_CONNECTING),
                                   STATE_ERROR),
        retry_count |-> 0,
        cmds |-> <<Cmd("gap_connect", <<Some(td[1].addr_type), td[1].addr>>, ok)>>,
        issued |-> ok]

\* a variant of the reconnection test that does not read auto_reconnect
ShouldReconnectAlways(ar, rc, td) == rc < MaxRetries /\ td # None

\* the reconnection test of handle_disconnect
ShouldReconnect(ar, rc, td) == ar /\ rc < MaxRetries /\ td # None

\* the event callback is attached (init_ble succeeded)
IrqAttached == ble # None

IrqUnchanged == UNCHANGED <<ble, error_count, auto_reconnect, ctor, call, drv, per>>

\* ------------------------------------------------------------------------
\* ble_handlers.py: scan and link events
\* ------------------------------------------------------------------------
\* a variant of the RSSI filter below that also drops a result at the
\* threshold
RssiFilteredAtThreshold(rssi) == rssi <= RssiThreshold

\* a variant of the RSSI filter below that drops nothing
RssiNeverFiltered(rssi) == FALSE

\* the RSSI filter of handle_scan_result
RssiFiltered(rssi) == rssi < RssiThreshold

\* IRQ_SCAN_RESULT -> BLEEventHandlers.handle_scan_result.  stopOk, connOk:
\* gap_scan(None) and gap_connect return
handle_scan_result(addr_type, addr, rssi, adv_data, stopOk, connOk) ==
  /\ IrqAttached
  /\ stk_scan = "on"
  /\ op' = "scan_result"
  /\ ret' = "None"
  /\ IF state # STATE_SCANNING
     THEN /\ cmds' = <<>>
          /\ Stay
          /\ UNCHANGED <<stats, target_device, target_found, retry_count,
                         stk_scan, stk_connecting, hist>>
     ELSE /\ stats.devices_analyzed < MaxScanned
          /\ stats' = [stats EXCEPT !.devices_analyzed = @ + 1]
          /\ LET addr_str == JoinHex(addr)
                 name == ExtractDeviceName(adv_data)
                 service_uuids == ExtractServiceUuids(adv_data)
                 td == Some([addr_type |-> addr_type, addr |-> addr,
                             rssi |-> rssi, name |-> name,
                             addr_str |-> addr_str])
                 stopped == stop_scan(<<state>>, stopOk)
                 started == start_connection(stopped.tr, td, retry_count, connOk)
             IN  IF RssiFiltered(rssi)
                    \/ ~is_target_device(addr_str, name, service_uuids,
                                         target_mac, device_name,
                                         SENSOR_SERVICE_UUID)
                 THEN /\ cmds' = <<>>
                      /\ Stay
                      /\ UNCHANGED <<target_device, target_found, retry_count,
                                     stk_scan, stk_connecting, hist>>
                 ELSE /\ target_device' = td
                      /\ hist' = [hist EXCEPT !.recorded = @ + 1]
                      /\ target_found' = TRUE
                      /\ Moved(started.tr)
                      /\ retry_count' = started.retry_count
                      /\ cmds' = stopped.cmds \o started.cmds
                      /\ stk_scan' = IF stopOk THEN "stopping" ELSE stk_scan
                      /\ stk_connecting' = (stk_connecting \/ started.issued)
  /\ UNCHANGED <<conn_handle, service_handles, char_handle, cccd_handle,
                 service_discovered, char_discovered, notifications_enabled>>
  /\ UNCHANGED <<stk_links, stk_proc>>
  /\ IrqUnchanged

\* IRQ_SCAN_DONE -> BLEEventHandlers.handle_scan_done
handle_scan_done ==
  /\ IrqAttached
  /\ stk_scan \in {"on", "stopping"}
  /\ stk_scan' = "off"
  /\ op' = "scan_done"
  /\ ret' = "None"
  /\ cmds' = <<>>
  /\ IF target_found
     THEN Stay
     ELSE Moved(change_state(<<state>>, STATE_IDLE))
  /\ UNCHANGED <<conn_handle, service_handles, char_handle, cccd_handle,
                 target_device, target_found, retry_count,
                 service_discovered, char_discovered, notifications_enabled,
                 stats>>
  /\ UNCHANGED <<stk_connecting, stk_links, stk_proc, hist>>
  /\ IrqUnchanged

\* IRQ_PERIPHERAL_CONNECT -> BLEEventHandlers.handle_connect.  h: the handle
\* the stack gave the new link; ok: gattc_discover_services returns
handle_connect(h, ok) ==
  /\ IrqAttached
  /\ stk_connecting /\ h \notin stk_links
  /\ stats.connections < MaxLinkEvents
  /\ op' = "connect"
  /\ ret' = "None"
  /\ conn_handle' = Some(h)
  /\ stats' = [stats EXCEPT !.connections = @ + 1]
  /\ retry_count' = 0
  /\ LET discovering == change_state(change_state(<<state>>, STATE_CONNECTED),
                                     STATE_DISCOVERING)
     IN  Moved(IF ok THEN discovering
               ELSE change_state(discovering, STATE_ERROR))
  /\ cmds' = <<Cmd("gattc_discover_services", <<Some(h), SENSOR_SERVICE_UUID>>, ok)>>
  /\ stk_connecting' = FALSE
  /\ stk_links' = stk_links \cup {h}
  /\ stk_proc' = IF ok THEN [stk_proc EXCEPT ![h] = "svc"] ELSE stk_proc
  /\ hist' = [hist EXCEPT !.consec_disc = 0, !.got_service = FALSE,
                          !.got_char = FALSE, !.absent = FALSE]
  /\ UNCHANGED <<service_handles, char_handle, cccd_handle, target_device,
                 target_found, service_discovered, char_discovered,
                 notifications_enabled, stk_scan>>
  /\ IrqUnchanged

\* BLEEventHandlers.handle_disconnect.  The handler unpacks the event's
\* connection handle and never reads it.  connOk: gap_connect returns, when
\* the handler reconnects; pending: a connect is still in flight in the stack
DisconnectHandler(connOk, pending) ==
  /\ stats.disconnections < MaxLinkEvents
  /\ op' = "disconnect_event"
  /\ ret' = "None"
  /\ conn_handle' = None
  /\ stats' = [stats EXCEPT !.disconnections = @ + 1]
  /\ ResetConnectionState
  /\ hist' = [hist EXCEPT !.consec_disc = @ + 1, !.got_service = FALSE,
                          !.got_char = FALSE]
  /\ LET idle == change_state(<<state>>, STATE_IDLE)
         started == start_connection(change_state(idle, STATE_RECONNECTING),
                                     target_device, retry_count + 1, connOk)
     IN  IF ShouldReconnect(auto_reconnect, retry_count, target_device)
         THEN /\ Moved(started.tr)
              /\ retry_count' = started.retry_count
              /\ cmds' = started.cmds
              /\ stk_connecting' = (pending \/ started.issued)
         ELSE /\ Moved(idle)
              /\ cmds' = <<>>
              /\ UNCHANGED retry_count
              /\ stk_connecting' = pending
  /\ UNCHANGED <<target_device, target_found, stk_scan>>
  /\ IrqUnchanged

\* IRQ_PERIPHERAL_DISCONNECT for link h, which was up
handle_disconnect(h, connOk) ==
  /\ IrqAttached
  /\ h \in stk_links
  /\ stk_links' = stk_links \ {h}
  /\ stk_proc' = [stk_proc EXCEPT ![h] = "none"]
  /\ DisconnectHandler(connOk, stk_connecting)

\* IRQ_PERIPHERAL_DISCONNECT with handle NoConn: the connect in flight failed
handle_connect_failed(connOk) ==
  /\ IrqAttached
  /\ stk_connecting
  /\ UNCHANGED <<stk_links, stk_proc>>
  /\ DisconnectHandler(connOk, FALSE)

\* ------------------------------------------------------------------------
\* ble_client.py: GATT discovery events
\* ------------------------------------------------------------------------
\* while the done event of link h is handled, a discovery command on the
\* held connection can return: its link is up and no other procedure is
\* outstanding on it
CanDiscover(h) ==
  /\ LinkUp(stk_links, conn_handle)
  /\ conn_handle[1] = h \/ stk_proc[conn_handle[1]] = "none"

GattUnchanged ==
  UNCHANGED <<conn_handle, target_device, target_found, retry_count, stats,
              stk_scan, stk_connecting, stk_links>>

\* IRQ_GATTC_SERVICE_RESULT -> _handle_service_result
handle_service_result(h, range, uuid) ==
  /\ IrqAttached
  /\ h \in stk_links /\ stk_proc[h] = "svc"
  /\ op' = "service_result"
  /\ ret' = "None"
  /\ cmds' = <<>>
  /\ IF uuid = SENSOR_SERVICE_UUID
     THEN /\ service_handles' = range
          /\ service_discovered' = TRUE
          /\ hist' = [hist EXCEPT
                        !.got_service = @ \/ Some(h) = conn_handle]
     ELSE UNCHANGED <<service_handles, service_discovered, hist>>
  /\ Stay
  /\ UNCHANGED <<char_handle, cccd_handle, char_discovered,
                 notifications_enabled, stk_proc>>
  /\ GattUnchanged
  /\ IrqUnchanged

\* IRQ_GATTC_SERVICE_DONE -> _handle_service_done.  ok:
\* gattc_discover_characteristics returns
handle_service_done(h, ok) ==
  /\ IrqAttached
  /\ h \in stk_links /\ stk_proc[h] = "svc"
  /\ ok => CanDiscover(h)
  /\ op' = "service_done"
  /\ hist' = [hist EXCEPT
                !.absent = @ \/ (Some(h) = conn_handle /\ ~hist.got_service)]
  /\ ret' = "None"
  /\ IF service_discovered
     THEN /\ cmds' = <<Cmd("gattc_discover_characteristics",
                           <<conn_handle, Some(service_handles[1]),
                             Some(service_handles[2]), ANALOG_VALUE_CHAR_UUID>>,
                           ok)>>
          /\ IF ok
             THEN /\ Stay
                  /\ stk_proc' = [[stk_proc EXCEPT ![h] = "none"]
                                    EXCEPT ![conn_handle[1]] = "chr"]
             ELSE /\ Moved(change_state(<<state>>, STATE_ERROR))
                  /\ stk_proc' = [stk_proc EXCEPT ![h] = "none"]
     ELSE /\ cmds' = <<>>
          /\ Moved(change_state(<<state>>, STATE_ERROR))
          /\ stk_proc' = [stk_proc EXCEPT ![h] = "none"]
  /\ UNCHANGED <<service_handles, char_handle, cccd_handle,
                 service_discovered, char_discovered, notifications_enabled>>
  /\ GattUnchanged
  /\ IrqUnchanged

\* IRQ_GATTC_CHARACTERISTIC_RESULT -> _handle_characteristic_result
handle_characteristic_result(h, value_handle, uuid) ==
  /\ IrqAttached
  /\ h \in stk_links /\ stk_proc[h] = "chr"
  /\ op' = "characteristic_result"
  /\ ret' = "None"
  /\ cmds' = <<>>
  /\ IF uuid = ANALOG_VALUE_CHAR_UUID
     THEN /\ char_handle' = Some(value_handle)
          /\ char_discovered' = TRUE
          /\ hist' = [hist EXCEPT
                        !.got_char = @ \/ Some(h) = conn_handle]
     ELSE UNCHANGED <<char_handle, char_discovered, hist>>
  /\ Stay
  /\ UNCHANGED <<service_handles, cccd_handle, service_discovered,
                 notifications_enabled, stk_proc>>
  /\ GattUnchanged
  /\ IrqUnchanged

\* a variant of the range below that is one handle wider
DescriptorRangeWide(ch) == <<ch, Some(ch[1] + 3)>>

\* the handle range _handle_characteristic_done searches for descriptors:
\* char_handle, char_handle + 2
DescriptorRange(ch) == <<ch, Some(ch[1] + 2)>>

\* IRQ_GATTC_CHARACTERISTIC_DONE -> _handle_characteristic_done.  ok:
\* gattc_discover_descriptors returns
handle_characteristic_done(h, ok) ==
  /\ IrqAttached
  /\ h \in stk_links /\ stk_proc[h] = "chr"
  /\ ok => CanDiscover(h)
  /\ op' = "characteristic_done"
  /\ hist' = [hist EXCEPT
                !.absent = @ \/ (Some(h) = conn_handle /\ ~hist.got_char)]
  /\ ret' = "None"
  /\ IF char_discovered
     THEN /\ cmds' = <<Cmd("gattc_discover_descriptors",
                           <<conn_handle>> \o DescriptorRange(char_handle),
                           ok)>>
          /\ IF ok
             THEN /\ Stay
                  /\ stk_proc' = [[stk_proc EXCEPT ![h] = "none"]
                                    EXCEPT ![conn_handle[1]] = "dsc"]
             ELSE /\ Moved(change_state(<<state>>, STATE_READY))
                  /\ stk_proc' = [stk_proc EXCEPT ![h] = "none"]
     ELSE /\ cmds' = <<>>
          /\ Moved(change_state(<<state>>, STATE_ERROR))
          /\ stk_proc' = [stk_proc EXCEPT ![h] = "none"]
  /\ UNCHANGED <<service_handles, char_handle, cccd_handle,
                 service_discovered, char_discovered, notifications_enabled>>
  /\ GattUnchanged
  /\ IrqUnchanged

\* IRQ_GATTC_DESCRIPTOR_RESULT -> _handle_descriptor_result.  ok: gattc_write
\* of the enable value returns
handle_descriptor_result(h, dsc_handle, uuid, ok) ==
  /\ IrqAttached
  /\ h \in stk_links /\ stk_proc[h] = "dsc"
  /\ op' = "descriptor_result"
  /\ UNCHANGED hist
  /\ ret' = "None"
  /\ IF uuid = CCCD_UUID
     THEN /\ cccd_handle' = Some(dsc_handle)
          /\ cmds' = <<Cmd("gattc_write",
                           <<Some(h), Some(dsc_handle), <<NOTIFY_ENABLE, 0>>>>,
                           ok)>>
          /\ notifications_enabled' = (IF ok THEN TRUE ELSE notifications_enabled)
          /\ Moved(change_state(<<state>>, STATE_READY))
     ELSE /\ cmds' = <<>>
          /\ Stay
          /\ UNCHANGED <<cccd_handle, notifications_enabled>>
  /\ UNCHANGED <<service_handles, char_handle, service_discovered,
                 char_discovered, stk_proc>>
  /\ GattUnchanged
  /\ IrqUnchanged

\* IRQ_GATTC_DESCRIPTOR_DONE -> _handle_descriptor_done
handle_descriptor_done(h) ==
  /\ IrqAttached
  /\ h \in stk_links /\ stk_proc[h] = "dsc"
  /\ stk_proc' = [stk_proc EXCEPT ![h] = "none"]
  /\ op' = "descriptor_done"
  /\ UNCHANGED hist
  /\ ret' = "None"
  /\ cmds' = <<>>
  /\ IF ~notifications_enabled
     THEN Moved(change_state(<<state>>, STATE_READY))
     ELSE Stay
  /\ UNCHANGED <<service_handles, char_handle, cccd_handle,
                 service_discovered, char_discovered, notifications_enabled>>
  /\ GattUnchanged
  /\ IrqUnchanged

\* ------------------------------------------------------------------------
\* ble_handlers.py / ble_client.py: data events
\* ------------------------------------------------------------------------
DataUnchanged ==
  /\ Stay
  /\ UNCHANGED <<conn_handle, service_handles, char_handle, cccd_handle,
                 target_device, target_found, retry_count,
                 service_discovered, char_discovered, notifications_enabled,
                 stack, hist>>

\* a variant of the test below that accepts every value handle
AnyValueHandle(value_handle, ch) == TRUE

\* value_handle == self.client.char_handle, the test of handle_notify and
\* handle_read_result (None equals no handle)
IsCharHandle(value_handle, ch) == Some(value_handle) = ch

\* IRQ_GATTC_NOTIFY -> BLEEventHandlers.handle_notify
handle_notify(h, value_handle) ==
  /\ IrqAttached
  /\ h \in stk_links
  /\ op' = "notify"
  /\ ret' = "None"
  /\ cmds' = <<>>
  /\ IF IsCharHandle(value_handle, char_handle)
     THEN /\ stats.notifications < MaxData
          /\ stats' = [stats EXCEPT !.notifications = @ + 1]
     ELSE UNCHANGED stats
  /\ DataUnchanged
  /\ IrqUnchanged

\* IRQ_GATTC_READ_RESULT -> BLEEventHandlers.handle_read_result
handle_read_result(h, value_handle) ==
  /\ IrqAttached
  /\ h \in stk_links
  /\ op' = "read_result"
  /\ ret' = "None"
  /\ cmds' = <<>>
  /\ IF IsCharHandle(value_handle, char_handle)
     THEN /\ stats.reads < MaxData
          /\ stats' = [stats EXCEPT !.reads = @ + 1]
     ELSE UNCHANGED stats
  /\ DataUnchanged
  /\ IrqUnchanged

\* IRQ_GATTC_READ_DONE -> _handle_read_done and IRQ_GATTC_WRITE_DONE ->
\* _handle_write_done: both only print.  hist.done keeps the event's value
\* handle and status
handle_io_done(name, h, value_handle, status) ==
  /\ IrqAttached
  /\ h \in stk_links
  /\ op' = name
  /\ ret' = "None"
  /\ cmds' = <<>>
  /\ hist' = [hist EXCEPT !.done = <<value_handle, status>>]
  /\ Stay
  /\ UNCHANGED <<conn_handle, service_handles, char_handle, cccd_handle,
                 target_device, target_found, retry_count,
                 service_discovered, char_discovered, notifications_enabled,
                 stack, stats>>
  /\ IrqUnchanged

\* ------------------------------------------------------------------------
\* ble_client.py: the except branch of ble_irq and _handle_critical_error
\* ------------------------------------------------------------------------
\* machine.reset(): the program starts over from construction
Restart ==
  /\ state' = STATE_IDLE
  /\ state_timestamp' = 0
  /\ ble' = None
  /\ conn_handle' = None
  /\ service_handles' = None
  /\ char_handle' = None
  /\ cccd_handle' = None
  /\ target_device' = None
  /\ target_found' = FALSE
  /\ retry_count' = 0
  /\ error_count' = 0
  /\ service_discovered' = FALSE
  /\ char_discovered' = FALSE
  /\ notifications_enabled' = FALSE
  /\ auto_reconnect' = TRUE
  /\ stats' = InitStats
  /\ stk_scan' = "off"
  /\ stk_connecting' = FALSE
  /\ stk_links' = {}
  /\ stk_proc' = [h \in ConnHandles |-> "none"]
  /\ trail' = <<STATE_IDLE>>
  /\ hist' = InitHist

\* a variant of the threshold test that fires on every exception
IsCriticalAlways(ec) == ec > 0

\* a variant of the threshold test that already fires at the ceiling
IsCriticalAtCeiling(ec) == ec >= ErrorCeiling

\* `if self.error_count > 15` after the increment
IsCritical(ec) == ec > ErrorCeiling

\* An event whose handling raises inside ble_irq's try block before the
\* handler has changed anything (the handlers_map dict allocated on every
\* call, the tuple unpacking at the top of a handler).  The event is one the
\* stack repeats (a scan result, a notification), so the stack is as before.
\* resetOk: every step of _handle_critical_error returns; when FALSE the
\* except branch ends in machine.reset() and the program starts over.
irq_exception(resetOk) ==
  /\ IrqAttached
  /\ stk_scan = "on" \/ stk_links # {}
  /\ stats.errors < MaxErrors
  /\ ret' = "None"
  /\ cmds' = <<>>
  /\ IF ~IsCritical(error_count + 1)
     THEN /\ op' = "irq_exception"
          /\ error_count' = error_count + 1
          /\ stats' = [stats EXCEPT !.errors = @ + 1]
          /\ hist' = [hist EXCEPT !.exc = @ + 1]
          /\ Stay
          /\ UNCHANGED <<ble, conn_handle, service_handles, char_handle,
                         cccd_handle, target_device, target_found,
                         retry_count, service_discovered, char_discovered,
                         notifications_enabled, auto_reconnect>>
          /\ UNCHANGED stack
     ELSE IF resetOk
     THEN /\ op' = "critical_reset"
          /\ error_count' = 0
          /\ stats' = [stats EXCEPT !.errors = @ + 1]
          /\ hist' = [hist EXCEPT !.exc = 0]
          /\ Moved(change_state(<<state>>, STATE_IDLE))
          /\ stk_scan' = "off"
          /\ stk_connecting' = FALSE
          /\ stk_links' = {}
          /\ stk_proc' = [h \in ConnHandles |-> "none"]
          /\ UNCHANGED <<ble, conn_handle, service_handles, char_handle,
                         cccd_handle, target_device, target_found,
                         retry_count, service_discovered, char_discovered,
                         notifications_enabled, auto_reconnect>>
     ELSE /\ op' = "machine_reset"
          /\ Restart
  /\ UNCHANGED <<ctor, call, drv, per>>

\* ------------------------------------------------------------------------
\* Specification
\* ------------------------------------------------------------------------
Rssis == {RssiThreshold - 1, RssiThreshold}

Statuses == {0, 1}

\* the public methods; Oks: the outcomes (return / raise) of the stack calls
Api(Oks) ==
  \/ \E free_mem \in FreeMems, fail \in BOOLEAN : init_ble(free_mem, fail)
  \/ \E ok \in Oks : scan_devices(ok)
  \/ \E ok \in Oks : read_characteristic(ok)
  \/ \E ok \in Oks : write_characteristic(ok)
  \/ \E ok \in Oks : disconnect(ok)

LinkEvents(Oks) ==
  \/ \E c \in Candidates, r \in Rssis, so \in Oks, co \in Oks :
        handle_scan_result(0, c[1], r, c[2], so, co)
  \/ handle_scan_done
  \/ \E h \in ConnHandles, ok \in Oks : handle_connect(h, ok)
  \/ \E h \in ConnHandles, co \in Oks : handle_disconnect(h, co)
  \/ \E co \in Oks : handle_connect_failed(co)

GattEvents(Oks) ==
  \/ \E h \in ConnHandles, r \in ServiceRanges, u \in {SENSOR_SERVICE_UUID, OTHER_UUID} :
        handle_service_result(h, r, u)
  \/ \E h \in ConnHandles, ok \in Oks : handle_service_done(h, ok)
  \/ \E h \in ConnHandles, v \in ValueHandles, u \in {ANALOG_VALUE_CHAR_UUID, OTHER_UUID} :
        handle_characteristic_result(h, v, u)
  \/ \E h \in ConnHandles, ok \in Oks : handle_characteristic_done(h, ok)
  \/ \E h \in ConnHandles, d \in DescriptorHandles, u \in {CCCD_UUID, OTHER_UUID}, ok \in Oks :
        handle_descriptor_result(h, d, u, ok)
  \/ \E h \in ConnHandles : handle_descriptor_done(h)

DataEvents ==
  \/ \E h \in ConnHandles, v \in ValueHandles \cup DescriptorHandles : handle_notify(h, v)
  \/ \E h \in ConnHandles, v \in ValueHandles \cup DescriptorHandles : handle_read_result(h, v)
  \/ \E h \in ConnHandles, v \in ValueHandles \cup DescriptorHandles, st \in Statuses :
        handle_io_done("read_done", h, v, st)
  \/ \E h \in ConnHandles, v \in ValueHandles \cup DescriptorHandles, st \in Statuses :
        handle_io_done("write_done", h, v, st)

Faults == \E resetOk \in BOOLEAN : irq_exception(resetOk)

Next == Api(BOOLEAN) \/ LinkEvents(BOOLEAN) \/ GattEvents(BOOLEAN)

\* the client and the stack, every stack call free to return or raise, with
\* no handler exception and no data traffic
Spec == Init /\ [][Next]_vars

NextFault == Api({TRUE}) \/ LinkEvents({TRUE}) \/ GattEvents({TRUE}) \/ Faults

\* the client and the stack with handler exceptions, every stack call
\* returning
SpecFault == Init /\ [][NextFault]_vars

NextData == Api({TRUE}) \/ LinkEvents({TRUE}) \/ GattEvents({TRUE}) \/ DataEvents

\* the client and the stack with the data traffic of a link (notifications,
\* read results, read-done and write-done), no stack call raising
SpecData == Init /\ [][NextData]_vars

\* the GATT table of the companion peripheral (ble_simple_peripheral.py):
\* _UART_UUID, _UART_TX_UUID (notify) and _UART_RX_UUID (write), as
\* little-endian bytes
UART_UUID ==
  <<158, 202, 220, 36, 14, 229, 169, 224, 147, 243, 163, 181, 0, 0, 64, 110>>

UART_TX_UUID ==
  <<158, 202, 220, 36, 14, 229, 169, 224, 147, 243, 163, 181, 3, 0, 64, 110>>

UART_RX_UUID ==
  <<158, 202, 220, 36, 14, 229, 169, 224, 147, 243, 163, 181, 2, 0, 64, 110>>

\* the handle range of _UART_SERVICE and the value handles of its two
\* characteristics (TX with its CCCD after it, then RX)
UartServiceRange == <<1, 6>>

UartCharacteristics == {<<3, UART_TX_UUID>>, <<6, UART_RX_UUID>>}

\* the handle the peripheral notifies on (_tx_handle)
UartTxHandle == 3

\* the events of a link to the companion peripheral: its service, its two
\* characteristics and its notifications.  No characteristic of the table
\* is recorded, so descriptor discovery is never started and has no events.
CompanionEvents ==
  \/ \E h \in ConnHandles : handle_service_result(h, UartServiceRange, UART_UUID)
  \/ \E h \in ConnHandles : handle_service_done(h, TRUE)
  \/ \E h \in ConnHandles, c \in UartCharacteristics :
        handle_characteristic_result(h, c[1], c[2])
  \/ \E h \in ConnHandles : handle_characteristic_done(h, TRUE)
  \/ \E h \in ConnHandles : handle_notify(h, UartTxHandle)

NextCompanion == Api({TRUE}) \/ LinkEvents({TRUE}) \/ CompanionEvents

\* the client with the companion peripheral as the only GATT server, no
\* stack call raising
SpecCompanion == Init /\ [][NextCompanion]_vars

NextFaultRaise ==
  Api(BOOLEAN) \/ LinkEvents({TRUE}) \/ GattEvents(BOOLEAN) \/ Faults

\* the client and the stack with handler exceptions, the stack calls of the
\* public methods and of the discovery handlers free to return or raise
SpecFaultRaise == Init /\ [][NextFaultRaise]_vars

\* ------------------------------------------------------------------------
\* state_machine.py / utils.py: the clock and the driver conectar_dispositivo
\* ------------------------------------------------------------------------
\* DEFAULT_CONFIG['connection_timeout'] (ms)
connection_timeout == 8000

\* DEFAULT_CONFIG['discovery_timeout'] (ms)
discovery_timeout == 6000

\* conectar_dispositivo's default timeout_s
timeout_s == 30

\* time.sleep_ms(100) in conectar_dispositivo's loop
PollMs == 100

\* the loop iterations one conectar_poll step stands for
PollsPerStep == 10

\* StateMachine.check_timeout (no method of the client and no driver calls
\* it)
check_timeout(timeout_ms) == now - state_timestamp > timeout_ms

\* conectar_dispositivo calls scan_devices once, right after init_ble
\* returned True
conectar_scan(ok) ==
  /\ op = "init_ble" /\ ret = "True"
  /\ scan_devices(ok)

\* conectar_dispositivo's loop, PollsPerStep iterations at a time: the loop
\* is entered when scan_devices has returned True; it ends with None when
\* timeout_s has passed, with the client when is_ready() is true; otherwise
\* it sleeps.  The client is not touched.
conectar_poll ==
  /\ driver \in {"off", "polling"}
  /\ driver = "off" => (op = "scan_devices" /\ ret = "True")
  /\ IF ~(now - 0 < timeout_s * 1000)
     THEN driver' = "returned_none" /\ UNCHANGED now
     ELSE IF is_ready
     THEN driver' = "returned_client" /\ UNCHANGED now
     ELSE driver' = "polling" /\ now' = now + PollsPerStep * PollMs
  /\ UNCHANGED <<prog, ctor, stack, obs, hist, call, per>>

\* conectar_dispositivo returns None when init_ble or scan_devices returned
\* False
conectar_refused ==
  /\ driver = "off"
  /\ op \in {"init_ble", "scan_devices"} /\ ret = "False"
  /\ driver' = "returned_none"
  /\ UNCHANGED <<prog, ctor, stack, obs, hist, call, now, per>>

NextDriver ==
  \/ \E free_mem \in FreeMems, fail \in BOOLEAN : init_ble(free_mem, fail)
  \/ \E ok \in BOOLEAN : conectar_scan(ok)
  \/ conectar_poll
  \/ conectar_refused
  \/ LinkEvents({TRUE})
  \/ GattEvents({TRUE})

\* conectar_dispositivo driving the client: its loop keeps running (weak
\* fairness of conectar_poll); the stack is free to deliver events or not
SpecDriver == Init /\ [][NextDriver]_vars /\ WF_vars(conectar_poll)


\* ------------------------------------------------------------------------
\* adv_parser.py called on its own
\* ------------------------------------------------------------------------
\* "ADC-Server"
NameAdcServer == <<65, 68, 67, 45>> \o NameServer

\* "X1"
NameX1 == <<88, 49>>

\* "C0:5D"
MacUpper == <<67, 48, 58, 53, 68>>

\* "84:ac"
Mac84AC == <<56, 52, 58, 97, 99>>

\* a second 128-bit UUID
OTHER_UUID128 == [k \in 1..16 |-> k]

\* advertising records (length, type, payload): flags; the names "X1"
\* (complete), "ESP" (complete), "A" (shortened), an empty name, a name that
\* is not UTF-8; two 16-bit UUIDs; one 16-bit UUID and a stray byte; one
\* 128-bit UUID; two 128-bit UUIDs; manufacturer data
AdRecords ==
  {AdvFlags, <<3, 9>> \o NameX1, <<4, 9, 69, 83, 80>>, <<2, 8, 65>>,
   <<1, 9>>, <<2, 9, 255>>,
   <<5, 3>> \o CCCD_UUID \o OTHER_UUID, <<4, 2>> \o CCCD_UUID \o <<7>>,
   <<17, 7>> \o SENSOR_SERVICE_UUID,
   <<33, 6>> \o OTHER_UUID128 \o SENSOR_SERVICE_UUID,
   <<3, 255, 76, 0>>}

\* what may follow the last complete record: nothing; a zero length byte,
\* alone or before bytes that read as a name record; a lone length byte
\* ("0"); a name record and a UUID record that declare more bytes than
\* are left
AdTails ==
  {<<>>, <<0>>, <<0, 3, 9>> \o NameX1, <<48>>, <<5, 9, 65, 66>>,
   <<6, 3>> \o CCCD_UUID}

\* the sequences of at most n records
RecordLists(n) == UNION {[1..k -> AdRecords] : k \in 0..n}

RECURSIVE Flatten(_)
\* the buffer that holds the records of recs one after the other
Flatten(recs) ==
  IF Len(recs) = 0 THEN <<>> ELSE Head(recs) \o Flatten(Tail(recs))

\* the buffers handed to the parser: complete records, then a tail
ParserInputs ==
  {[f |-> "buffer", recs |-> rs, tail |-> tl, adv |-> Flatten(rs) \o tl] :
     rs \in RecordLists(MaxRecords), tl \in AdTails}

\* the arguments handed to is_target_device
MatcherInputs ==
  {[f |-> "candidate", addr_str |-> a, device_name |-> dn,
    service_uuids |-> us, target_mac |-> tm, target_name |-> tn,
    target_service_uuid |-> tu] :
     a \in {MacC05D, Mac84AC},
     dn \in {None, Some(<<>>), Some(NameAdcServer), Some(NameX1)},
     us \in {<<>>, <<CCCD_UUID>>, <<SENSOR_SERVICE_UUID>>,
             <<CCCD_UUID, SENSOR_SERVICE_UUID>>},
     tm \in {None, Some(<<>>), Some(MacC05D), Some(MacUpper)},
     tn \in {None, Some(<<>>), Some(NameServer), Some(Lower(NameServer)),
             Some(NameAdcServer \o NameX1)},
     tu \in {None, SENSOR_SERVICE_UUID, OTHER_UUID}}

RECURSIVE Utf8Encode(_)
\* str.encode(): the UTF-8 bytes of a str given by its code points (below
\* 2048: one or two bytes each)
Utf8Encode(s) ==
  IF Len(s) = 0 THEN <<>>
  ELSE (IF Head(s) < 128 THEN <<Head(s)>>
        ELSE <<192 + (Head(s) \div 64), 128 + (Head(s) % 64)>>)
       \o Utf8Encode(Tail(s))

\* _append of advertising_payload: struct.pack("BB", len(value) + 1,
\* adv_type) + value
AdvAppend(adv_type, value) == <<(Len(value) + 1) % 256, adv_type>> \o value

RECURSIVE AdvServices(_)
\* the loop over services of advertising_payload: one record of type 0x07
\* for each UUID of 16 bytes
AdvServices(services) ==
  IF Len(services) = 0 THEN <<>>
  ELSE (IF Len(Head(services)) = 16 THEN AdvAppend(7, Head(services))
        ELSE <<>>)
       \o AdvServices(Tail(services))

\* advertising_payload(name=name, services=services) of
\* versoes/ble_advertising.py, the other parameters at their defaults
advertising_payload(name, services) ==
  AdvAppend(1, <<2 + 4>>)
    \o (IF Len(name) > 0 THEN AdvAppend(9, Utf8Encode(name)) ELSE <<>>)
    \o AdvServices(services)

\* the length BLESimplePeripheral._advertise cuts the name's bytes to
AdvNameMaxBytes == 10

\* adv_data of BLESimplePeripheral._advertise for the device name
AdvertiseData(name) ==
  LET name_bytes == Slice(Utf8Encode(name), 0, AdvNameMaxBytes)
  IN  <<Len(name_bytes) + 1, 9>> \o name_bytes

\* "Medidor-9" and the letter e with an acute accent (code point 233)
NameMedidor == <<77, 101, 100, 105, 100, 111, 114, 45, 57, 233>>

\* "Caf" and the same letter
NameCafe == <<67, 97, 102, 233>>

\* "ESP32-ADC", the default name of BLESimplePeripheral
NameEsp32Adc == <<69, 83, 80, 51, 50, 45, 65, 68, 67>>

\* the device names and service lists the payload builders are given
AdvertNames ==
  {NameX1, NameEsp32Adc, NameAdcServer, NameAdcServer \o NameX1, NameCafe,
   NameMedidor}

AdvertServices ==
  {<<>>, <<UART_UUID>>, <<UART_TX_UUID, UART_UUID>>,
   <<UART_UUID, UART_TX_UUID, UART_RX_UUID>>}

AdvertInputs ==
  {[f |-> "advert", name |-> n, services |-> s] :
     n \in AdvertNames, s \in AdvertServices}

InitParser ==
  /\ InitProg
  /\ InitStack
  /\ target_mac = None
  /\ device_name = None
  /\ op = "new"
  /\ ret = "None"
  /\ cmds = <<>>
  /\ trail = <<STATE_IDLE>>
  /\ hist = InitHist
  /\ call \in ParserInputs \cup MatcherInputs \cup AdvertInputs
  /\ now = 0
  /\ driver = "off"
  /\ per = InitPer

\* AdvertisementParser.extract_device_name(adv)
call_extract_device_name ==
  /\ call.f = "buffer"
  /\ call' = [f |-> "extract_device_name", recs |-> call.recs,
              tail |-> call.tail, adv |-> call.adv,
              out |-> ExtractDeviceName(call.adv)]
  /\ UNCHANGED <<prog, ctor, stack, obs, hist, drv, per>>

\* AdvertisementParser.extract_service_uuids(adv)
call_extract_service_uuids ==
  /\ call.f = "buffer"
  /\ call' = [f |-> "extract_service_uuids", recs |-> call.recs,
              tail |-> call.tail, adv |-> call.adv,
              out |-> ExtractServiceUuids(call.adv)]
  /\ UNCHANGED <<prog, ctor, stack, obs, hist, drv, per>>

\* AdvertisementParser.is_target_device(...)
call_is_target_device ==
  /\ call.f = "candidate"
  /\ call' = [call EXCEPT
                !.f = "is_target_device"] @@
             [out |-> is_target_device(call.addr_str, call.device_name,
                                       call.service_uuids, call.target_mac,
                                       call.target_name,
                                       call.target_service_uuid)]
  /\ UNCHANGED <<prog, ctor, stack, obs, hist, drv, per>>

\* the two extract functions applied to advertising_payload(name, services)
call_parse_advertising_payload ==
  /\ call.f = "advert"
  /\ LET adv == advertising_payload(call.name, call.services)
     IN  call' = [f |-> "advertising_payload", name |-> call.name,
                  services |-> call.services, adv |-> adv,
                  out_name |-> ExtractDeviceName(adv),
                  out_uuids |-> ExtractServiceUuids(adv)]
  /\ UNCHANGED <<prog, ctor, stack, obs, hist, drv, per>>

\* the two extract functions applied to the adv_data of _advertise
call_parse_advertise ==
  /\ call.f = "advert"
  /\ LET adv == AdvertiseData(call.name)
     IN  call' = [f |-> "_advertise", name |-> call.name,
                  services |-> call.services, adv |-> adv,
                  out_name |-> ExtractDeviceName(adv),
                  out_uuids |-> ExtractServiceUuids(adv)]
  /\ UNCHANGED <<prog, ctor, stack, obs, hist, drv, per>>

NextParser ==
  \/ call_extract_device_name
  \/ call_extract_service_uuids
  \/ call_is_target_device
  \/ call_parse_advertising_payload
  \/ call_parse_advertise

\* the three functions of AdvertisementParser, each applied once to an
\* input drawn at the start, and the two extract functions applied to what
\* the peripheral-side payload builders make of a name and a service list
SpecParser == InitParser /\ [][NextParser]_vars

\* ------------------------------------------------------------------------
\* memory_manager.py called on its own
\* ------------------------------------------------------------------------
\* DEFAULT_CONFIG['gc_interval']
gc_interval == 8

\* the wall-clock interval of manage_memory (ms)
GcPeriodMs == 10000

\* the period of time.ticks_ms()
TICKS_PERIOD == 2^30

\* the largest operation_count increment_operation is applied to
MaxOps == 8

\* time.ticks_diff(a, b): the signed difference on the ring of ticks
ticks_diff(a, b) ==
  ((a - b + TICKS_PERIOD \div 2) % TICKS_PERIOD) - TICKS_PERIOD \div 2

\* a variant of the test of manage_memory that compares the two tick values
\* as plain numbers
ShouldCollectNoWrap(mm, force, current_time) ==
  \/ force
  \/ mm.operation_count % gc_interval = 0
  \/ current_time - mm.last_gc_time > GcPeriodMs

\* the test at the top of manage_memory
ShouldCollect(mm, force, current_time) ==
  \/ force
  \/ mm.operation_count % gc_interval = 0
  \/ ticks_diff(current_time, mm.last_gc_time) > GcPeriodMs

\* MemoryManager.manage_memory on the manager mm.  current_time: what
\* time.ticks_ms() returns; free_mem: what gc.mem_free() returns (after
\* gc.collect() when a collection is made).  The result holds the manager
\* after the call, the value returned, whether gc.collect() ran in
\* manage_memory and whether emergency_cleanup was called.
manage_memory(mm, force, current_time, free_mem) ==
  IF ShouldCollect(mm, force, current_time)
  THEN [mm |-> [operation_count |-> mm.operation_count,
                last_gc_time |-> current_time,
                min_memory |-> IF free_mem < mm.min_memory
                               THEN free_mem ELSE mm.min_memory,
                gc_collections |-> mm.gc_collections + 1],
        ret |-> free_mem,
        collected |-> TRUE,
        emergency |-> free_mem < memory_threshold]
  ELSE [mm |-> mm, ret |-> free_mem, collected |-> FALSE,
        emergency |-> FALSE]

\* the managers manage_memory is called on, with the arguments of the call:
\* elapsed is the time since last_gc_time, and last_gc_time is either early
\* or shortly before the ticks wrap around
MemoryInputs ==
  {[f |-> "manager",
    mm |-> [operation_count |-> oc, last_gc_time |-> lt,
            min_memory |-> mn, gc_collections |-> gcs],
    force |-> fo, elapsed |-> el, free_mem |-> fm] :
     oc \in {0, 1, 7, 8}, lt \in {0, TICKS_PERIOD - 5000},
     mn \in {999999, memory_threshold, 30000}, gcs \in {0, 1},
     fo \in BOOLEAN, el \in {0, GcPeriodMs, GcPeriodMs + 1},
     fm \in {memory_threshold - 1, memory_threshold, 45000}}

InitMemory ==
  /\ InitProg
  /\ InitStack
  /\ target_mac = None
  /\ device_name = None
  /\ op = "new"
  /\ ret = "None"
  /\ cmds = <<>>
  /\ trail = <<STATE_IDLE>>
  /\ hist = InitHist
  /\ call \in MemoryInputs
  /\ now = 0
  /\ driver = "off"
  /\ per = InitPer

\* MemoryManager.increment_operation
call_increment_operation ==
  /\ call.f = "manager"
  /\ call.mm.operation_count <= MaxOps
  /\ call' = [call EXCEPT !.mm.operation_count = @ + 1]
  /\ UNCHANGED <<prog, ctor, stack, obs, hist, drv, per>>

\* MemoryManager.manage_memory(force), called elapsed ms after last_gc_time
call_manage_memory ==
  /\ call.f = "manager"
  /\ call' = [call EXCEPT !.f = "manage_memory"] @@
             [out |-> manage_memory(call.mm, call.force,
                                    (call.mm.last_gc_time + call.elapsed)
                                       % TICKS_PERIOD,
                                    call.free_mem)]
  /\ UNCHANGED <<prog, ctor, stack, obs, hist, drv, per>>

\* MemoryManager.check_memory_health with gc.mem_free() = free_mem
check_memory_health(mm, free_mem) ==
  [free |-> free_mem, min_recorded |-> mm.min_memory,
   gc_count |-> mm.gc_collections,
   health |-> IF free_mem > memory_threshold THEN "OK" ELSE "LOW"]

call_check_memory_health ==
  /\ call.f = "manager"
  /\ call' = [call EXCEPT !.f = "check_memory_health"] @@
             [out |-> check_memory_health(call.mm, call.free_mem)]
  /\ UNCHANGED <<prog, ctor, stack, obs, hist, drv, per>>

NextMemory ==
  \/ call_increment_operation
  \/ call_manage_memory
  \/ call_check_memory_health

\* a MemoryManager drawn at the start, its operation counter incremented,
\* then manage_memory or check_memory_health applied once
SpecMemory == InitMemory /\ [][NextMemory]_vars

\* ------------------------------------------------------------------------
\* esp32-ble-server-periferico: ble_simple_peripheral.py and ble_handler.py
\* ------------------------------------------------------------------------
\* config.BLE_MESSAGE_MAX_LENGTH
BLE_MESSAGE_MAX_LENGTH == 100

\* the length BLESimplePeripheral.send cuts the data to
NotifyMaxLength == 20

\* the centrals the stack keeps connected at a time
MaxCentrals == 2

\* "ADC:"
MsgPrefix == <<65, 68, 67, 58>>

RECURSIVE Digits(_)
\* str(n) for n >= 0
Digits(n) ==
  IF n < 10 THEN <<48 + n>> ELSE Digits(n \div 10) \o <<48 + (n % 10)>>

\* str(v) of a voltage rounded to two decimals, v = cv / 100: at least one
\* decimal, no trailing zero after it
FormatVoltage(cv) ==
  Digits(cv \div 100) \o <<46>> \o
    (IF cv % 10 = 0 THEN <<48 + ((cv % 100) \div 10)>>
     ELSE <<48 + ((cv % 100) \div 10), 48 + (cv % 10)>>)

RECURSIVE ChannelParts(_)
\* f"C{data['channel']}={data['voltage']}V;" for each reading, in order
ChannelParts(analog_data) ==
  IF Len(analog_data) = 0 THEN <<>>
  ELSE <<67>> \o Digits(Head(analog_data).channel) \o <<61>>
         \o FormatVoltage(Head(analog_data).voltage) \o <<86, 59>>
         \o ChannelParts(Tail(analog_data))

\* BLEHandler.format_message
format_message(analog_data) ==
  Slice(MsgPrefix \o ChannelParts(analog_data), 0, BLE_MESSAGE_MAX_LENGTH)

\* the data BLESimplePeripheral.send hands to gatts_notify: the UTF-8
\* bytes of the message (ASCII here), cut to NotifyMaxLength
NotifyData(message) ==
  IF Len(message) > NotifyMaxLength THEN Slice(message, 0, NotifyMaxLength)
  ELSE message

\* BLESimplePeripheral.is_connected
is_connected == per.conn_handle # None

\* the voltages read, in hundredths of a volt
Volts == {0, 125, 330}

\* what ADCManager.read_channels returns: one reading per configured
\* channel, numbered from 1 (one channel, or the three of config.ADC_PINS)
AnalogData ==
  UNION {{[i \in 1..n |-> [channel |-> i, voltage |-> v[i]]] :
            v \in [1..n -> Volts]} : n \in {1, 3}}

\* _IRQ_CENTRAL_CONNECT for a central the stack gave the handle h
irq_central_connect(h) ==
  /\ h \notin per.centrals
  /\ Cardinality(per.centrals) < MaxCentrals
  /\ per' = [per EXCEPT !.conn_handle = Some(h), !.centrals = @ \cup {h},
                         !.op = "central_connect", !.ret = "None"]
  /\ UNCHANGED <<prog, ctor, stack, obs, hist, call, drv>>

\* _IRQ_CENTRAL_DISCONNECT for the connected central h (the handler then
\* advertises again)
irq_central_disconnect(h) ==
  /\ h \in per.centrals
  /\ per' = [per EXCEPT !.conn_handle = None, !.centrals = @ \ {h},
                         !.op = "central_disconnect", !.ret = "None"]
  /\ UNCHANGED <<prog, ctor, stack, obs, hist, call, drv>>

\* BLEHandler.send_data(analog_data), with BLESimplePeripheral.send inside.
\* ok: gatts_notify returns (send catches what it raises, and send_data does
\* not look at what send returns)
send_data(analog_data, ok) ==
  /\ IF ~is_connected
     THEN per' = [per EXCEPT !.op = "send_data", !.ret = "False",
                             !.analog_data = analog_data,
                             !.message = None, !.frame = None, !.to = None]
     ELSE per' = [per EXCEPT !.op = "send_data", !.ret = "True",
                             !.analog_data = analog_data,
                             !.message = Some(format_message(analog_data)),
                             !.frame = IF ok
                                       THEN Some(NotifyData(format_message(analog_data)))
                                       ELSE None,
                             !.to = per.conn_handle]
  /\ UNCHANGED <<prog, ctor, stack, obs, hist, call, drv>>

NextPeripheral ==
  \/ \E h \in ConnHandles : irq_central_connect(h)
  \/ \E h \in ConnHandles : irq_central_disconnect(h)
  \/ \E d \in AnalogData, ok \in BOOLEAN : send_data(d, ok)

\* the peripheral: centrals connect and disconnect, the main loop sends
\* readings
SpecPeripheral == Init /\ [][NextPeripheral]_vars

\* ------------------------------------------------------------------------
\* Properties
\* ------------------------------------------------------------------------
\* C1: counting from the last connect-complete event, the disconnect event
\* number max_retries + 1 with no connection in between issues no connect
\* command and leaves the machine in Idle (so at most max_retries
\* consecutive disconnect events start a reconnection).
C1_ReconnectAtMostMaxRetries ==
  (/\ op = "disconnect_event"
   /\ stats.connections >= 1
   /\ hist.consec_disc > MaxRetries)
  => (state = STATE_IDLE /\ cmds = <<>>)

C3_ScanOnlyFromIdleOrError ==
  [][op' = "scan_devices"
     => /\ state \notin {STATE_IDLE, STATE_ERROR}
           => /\ ret' = "False"
              /\ cmds' = <<>>
              /\ state' = state
              /\ trail' = <<state>>
              /\ target_device' = target_device
              /\ target_found' = target_found
              /\ stats'.devices_analyzed = stats.devices_analyzed
        /\ cmds' # <<>> => state \in {STATE_IDLE, STATE_ERROR}]_vars

\* a scan refused in Ready, the target of the running connection kept
C3_RefusedInReady ==
  /\ op = "scan_devices"
  /\ ret = "False"
  /\ state = STATE_READY
  /\ target_found
  /\ target_device # None
  /\ stats.devices_analyzed > 0


\* C4: a disconnect event whose connection handle differs from the held
\* one (the handle of a failed connect, or the handle of another link, also
\* when none is held) changes neither the state, the handles, the discovery
\* flags, the retry counter nor the disconnections counter, and calls no
\* gap_connect.
C4_ForeignDisconnectIsNoOp ==
  [][(\/ \E co \in BOOLEAN : handle_connect_failed(co)
      \/ \E h \in ConnHandles, co \in BOOLEAN :
            Some(h) # conn_handle /\ handle_disconnect(h, co))
     => /\ UNCHANGED <<state, conn_handle, service_handles, char_handle,
                       cccd_handle, service_discovered, char_discovered,
                       notifications_enabled, retry_count>>
        /\ stats'.disconnections = stats.disconnections
        /\ "gap_connect" \notin CmdNames(cmds')]_vars

\* C5: when the service-done (characteristic-done) event of the held
\* connection is handled and no matching service (characteristic) result
\* arrived on that connection, the handler ends in Error and no discovery
\* command reaches the stack, and the state is not Ready again before the
\* next connect-complete event.
C5_AbsentResultEndsInError ==
  [][/\ (/\ op' \in {"service_done", "characteristic_done"}
         /\ ~hist.absent
         /\ hist'.absent)
        => (state' = STATE_ERROR /\ Accepted(cmds') = {})
     /\ hist'.absent => state' # STATE_READY]_vars


\* C6: the machine never waits in Discovering forever while the link of the
\* held connection is up: whenever the state is Discovering on a link that
\* is up, a discovery procedure is outstanding on that link, so that its
\* done event is still to come and moves the machine on.
C6_DiscoveringHasProcedure ==
  (state = STATE_DISCOVERING /\ LinkUp(stk_links, conn_handle))
  => stk_proc[conn_handle[1]] # "none"


\* C7: a handler exception is caught and counted (error_count and
\* stats.errors go up by one); the stack reset is attempted exactly on the
\* exception that brings the count since the last recovery to 16, never on
\* an earlier one; after a reset that succeeded the state is Idle and
\* error_count is 0.
C7_ResetExactlyOnSixteenth ==
  [][op' \in {"irq_exception", "critical_reset", "machine_reset"}
     => /\ (op' # "irq_exception") <=> (hist.exc + 1 = 16)
        /\ op' = "irq_exception"
           => /\ error_count' = error_count + 1
              /\ stats'.errors = stats.errors + 1
              /\ hist'.exc = hist.exc + 1
              /\ state' = state
        /\ op' = "critical_reset"
           => /\ state' = STATE_IDLE
              /\ error_count' = 0
              /\ stats'.errors = stats.errors + 1]_vars

\* the sixteenth exception since construction has been handled by a reset
\* that succeeded, out of a state other than Idle
C7_ResetDone ==
  /\ op = "critical_reset"
  /\ stats.errors = 16
  /\ error_count = 0
  /\ state = STATE_IDLE
  /\ trail[1] # STATE_IDLE

\* C8: disconnect() called while a connection is established (the held
\* handle, whatever its value, is that of a link that is up) calls
\* gap_disconnect for the held handle and clears auto_reconnect; the
\* disconnect event handled next ends in Idle and calls no gap_connect.
C8_DisconnectStopsReconnection ==
  [][/\ (op' = "disconnect" /\ LinkUp(stk_links, conn_handle))
        => /\ auto_reconnect' = FALSE
           /\ Len(cmds') = 1
           /\ cmds'[1].c = "gap_disconnect"
           /\ cmds'[1].a = <<conn_handle>>
     /\ (/\ op = "disconnect"
         /\ LinkUp(stk_links, conn_handle)
         /\ op' = "disconnect_event")
        => (state' = STATE_IDLE /\ "gap_connect" \notin CmdNames(cmds'))]_vars

\* C9: the handling of a stack event that starts in Error ends in Error.
C9_ErrorPersistsUnderEvents ==
  [][(/\ state = STATE_ERROR
      /\ op' \in {"scan_result", "scan_done", "connect", "disconnect_event",
                  "service_result", "service_done", "characteristic_result",
                  "characteristic_done", "descriptor_result",
                  "descriptor_done", "notify", "read_result", "read_done",
                  "write_done"})
     => state' = STATE_ERROR]_vars

\* C10: a disconnect event enters Reconnecting or calls the stack only if,
\* when it is handled, a target is remembered, auto_reconnect is set and
\* retry_count is below max_retries; when one of the three fails the handler
\* ends in Idle, having gone through no other state and made no stack call.
C10_ReconnectOnlyWhenAllowed ==
  [][op' = "disconnect_event"
     => LET allowed == /\ target_device # None
                       /\ auto_reconnect
                       /\ retry_count < MaxRetries
        IN  /\ (STATE_RECONNECTING \in Range(trail') \/ cmds' # <<>>)
               => allowed
            /\ allowed
               => /\ STATE_RECONNECTING \in Range(trail')
                  /\ Len(cmds') = 1
                  /\ cmds'[1].c = "gap_connect"
            /\ ~allowed
               => /\ state' = STATE_IDLE
                  /\ trail' = change_state(<<state>>, STATE_IDLE)
                  /\ cmds' = <<>>]_vars

\* a disconnect event handled after disconnect() cleared auto_reconnect:
\* the target is still remembered and the handler ends in Idle
C10_NoReconnectAfterDisconnectCall ==
  /\ op = "disconnect_event"
  /\ ~auto_reconnect
  /\ target_device # None
  /\ state = STATE_IDLE
  /\ cmds = <<>>


\* C11: is_target_device returns True exactly when one of the configured
\* criteria is met: a target address is configured (given and not empty)
\* and equals the candidate address ignoring case; or a target name is
\* configured and occurs, ignoring case, inside the candidate's name; or a
\* target service UUID is configured and is in the candidate's UUID list.
\* With no criterion configured it returns False for every candidate.
C11_MatchIffCriterionMet ==
  call.f = "is_target_device"
  => LET Configured(x) == x # None /\ x[1] # <<>>
         SameIgnoringCase(a, b) ==
           /\ Len(a) = Len(b)
           /\ \A i \in 1..Len(a) : LowerChar(a[i]) = LowerChar(b[i])
         OccursIn(needle, hay) ==
           \E k \in 0..(Len(hay) - Len(needle)) :
              \A i \in 1..Len(needle) :
                 LowerChar(hay[k + i]) = LowerChar(needle[i])
         byAddress == /\ Configured(call.target_mac)
                      /\ SameIgnoringCase(call.addr_str, call.target_mac[1])
         byName == /\ Configured(call.target_name)
                   /\ call.device_name # None
                   /\ OccursIn(call.target_name[1], call.device_name[1])
         byService == /\ call.target_service_uuid # None
                      /\ \E i \in 1..Len(call.service_uuids) :
                            call.service_uuids[i] = call.target_service_uuid
     IN  /\ call.out = (byAddress \/ byName \/ byService)
         /\ (/\ ~Configured(call.target_mac)
             /\ ~Configured(call.target_name)
             /\ call.target_service_uuid = None) => call.out = FALSE

\* target name "Server" alone matches the candidate named "ADC-Server"
C11_ServerMatchesAdcServer ==
  /\ call.f = "is_target_device"
  /\ call.target_mac = None
  /\ call.target_service_uuid = None
  /\ call.target_name = Some(NameServer)
  /\ call.device_name = Some(NameAdcServer)
  /\ call.out = TRUE


\* the payload of an advertising record
Payload(rec) == SubSeq(rec, 3, Len(rec))

\* the UUIDs a record carries: consecutive little-endian 16-bit values in a
\* 0x02/0x03 record, consecutive 16-byte values in a 0x06/0x07 record
EncodedUuidsOf(rec) ==
  LET p == Payload(rec)
  IN  IF rec[2] \in {2, 3}
      THEN [k \in 1..(Len(p) \div 2) |-> <<p[2 * k - 1], p[2 * k]>>]
      ELSE IF rec[2] \in {6, 7}
      THEN [k \in 1..(Len(p) \div 16) |-> SubSeq(p, 16 * k - 15, 16 * k)]
      ELSE <<>>

RECURSIVE EncodedUuids(_)
\* the UUIDs the records of recs carry, in the order of the records
EncodedUuids(recs) ==
  IF Len(recs) = 0 THEN <<>>
  ELSE EncodedUuidsOf(Head(recs)) \o EncodedUuids(Tail(recs))

\* the name the records of recs carry: the payload of the first 0x08/0x09
\* record whose payload is UTF-8, None when there is no such record
EncodedName(recs) ==
  LET named == {i \in 1..Len(recs) :
                  recs[i][2] \in {8, 9} /\ Utf8Valid(Payload(recs[i]))}
  IN  IF named = {} THEN None
      ELSE Some(Payload(recs[CHOOSE i \in named : \A j \in named : i <= j]))

\* C12: on a buffer made of complete records only, extract_device_name
\* returns the payload of the first 0x08/0x09 record that is valid UTF-8,
\* and None exactly when there is none; extract_service_uuids returns the
\* UUIDs of the 0x02/0x03 and 0x06/0x07 records in buffer order, none added,
\* lost or reordered.
C12_ParserReturnsWhatIsEncoded ==
  /\ (call.f = "extract_device_name" /\ call.tail = <<>>)
     => call.out = EncodedName(call.recs)
  /\ (call.f = "extract_service_uuids" /\ call.tail = <<>>)
     => call.out = EncodedUuids(call.recs)

\* a name record that is not UTF-8 is passed over and the next one returned
C12_SecondNameReturned ==
  /\ call.f = "extract_device_name"
  /\ call.tail = <<>>
  /\ call.recs = <<(<<2, 9, 255>>), (<<3, 9>> \o NameX1)>>
  /\ call.out = Some(NameX1)

\* C13: on a buffer whose complete records are followed by a record with a
\* zero length byte or with a length byte that exceeds the bytes left, both
\* functions return what the complete records before it carry and nothing
\* of that record or of the bytes after it; on a buffer shorter than two
\* bytes they return None and the empty list.
C13_MalformedRecordEndsParsing ==
  /\ (call.f = "extract_device_name" /\ call.tail # <<>>)
     => call.out = EncodedName(call.recs)
  /\ (call.f = "extract_service_uuids" /\ call.tail # <<>>)
     => call.out = EncodedUuids(call.recs)
  /\ (call.f = "extract_device_name" /\ Len(call.adv) < 2)
     => call.out = None
  /\ (call.f = "extract_service_uuids" /\ Len(call.adv) < 2)
     => call.out = <<>>

\* a name record that declares five bytes with three left is dropped
C13_StraddlingNameDropped ==
  /\ call.f = "extract_device_name"
  /\ call.recs = <<AdvFlags>>
  /\ call.tail = <<5, 9, 65, 66>>
  /\ call.out = None

\* the bytes 0x02 0x01 0x06 0x04 0x09 'E' 'S' 'P' '0'
EspBuffer == <<2, 1, 6, 4, 9, 69, 83, 80, 48>>

\* C14: for the buffer 0x02 0x01 0x06 0x04 0x09 'E' 'S' 'P' '0',
\* extract_device_name returns "ESP" (the length byte 0x04 covers the type
\* and three payload bytes; '0' is left over as a length byte with nothing
\* behind it) and extract_service_uuids returns no UUID.
C14_EspBufferYieldsEsp ==
  /\ (call.f = "extract_device_name" /\ call.adv = EspBuffer)
     => call.out = Some(<<69, 83, 80>>)
  /\ (call.f = "extract_service_uuids" /\ call.adv = EspBuffer)
     => call.out = <<>>

\* the name of the buffer has been extracted
C14_EspBufferParsed ==
  /\ call.f = "extract_device_name"
  /\ call.adv = EspBuffer
  /\ call.out = Some(<<69, 83, 80>>)

\* C14 as stated: for that buffer extract_device_name returns "ESP0" and
\* extract_service_uuids returns no UUID.
C14_EspBufferYieldsEsp0 ==
  /\ (call.f = "extract_device_name" /\ call.adv = EspBuffer)
     => call.out = Some(<<69, 83, 80, 48>>)
  /\ (call.f = "extract_service_uuids" /\ call.adv = EspBuffer)
     => call.out = <<>>


\* C15: between two scan_devices calls whose gap_scan returns at most one
\* target is recorded.  The scan result that records it is handled in
\* Scanning and calls gap_scan(None), then gap_connect for the recorded
\* address, and ends in Connecting when gap_connect returns; every later
\* scan result of that cycle, like every scan result that records nothing,
\* leaves the recorded target and the state as they were and makes no stack
\* call.
C15_FirstMatchWins ==
  [][op' = "scan_result"
     => /\ hist'.recorded <= 1
        /\ hist'.recorded > hist.recorded
           => /\ state = STATE_SCANNING
              /\ target_device' # None
              /\ Len(cmds') = 2
              /\ cmds'[1].c = "gap_scan_stop"
              /\ cmds'[2].c = "gap_connect"
              /\ cmds'[2].a = <<Some(target_device'[1].addr_type),
                                target_device'[1].addr>>
              /\ cmds'[2].ok => state' = STATE_CONNECTING
        /\ (hist.recorded >= 1 \/ hist'.recorded = hist.recorded)
           => /\ target_device' = target_device
              /\ state' = state
              /\ cmds' = <<>>]_vars

\* a scan result handled after the target of the cycle was recorded
C15_LateResultIgnored ==
  /\ op = "scan_result"
  /\ hist.recorded = 1
  /\ target_found
  /\ state = STATE_CONNECTING
  /\ cmds = <<>>


C17_ConnectStartsDiscovery ==
  [][op' = "connect"
     => /\ \E h \in stk_links' \ stk_links : conn_handle' = Some(h)
        /\ retry_count' = 0
        /\ stats'.connections = stats.connections + 1
        /\ Len(cmds') = 1
        /\ cmds'[1].c = "gattc_discover_services"
        /\ cmds'[1].a = <<conn_handle', SENSOR_SERVICE_UUID>>
        /\ cmds'[1].ok
           => /\ state' = STATE_DISCOVERING
              /\ Len(trail') >= 2
              /\ trail'[Len(trail') - 1] = STATE_CONNECTED]_vars

\* the second connect-complete event, handled after a disconnect event
C17_SecondConnectHandled ==
  /\ op = "connect"
  /\ state = STATE_DISCOVERING
  /\ stats.connections = 2
  /\ stats.disconnections >= 1
  /\ retry_count = 0
  /\ conn_handle # None


\* C18: when a disconnect event has been handled, the service handle range,
\* the characteristic handle, the descriptor handle and the connection
\* handle are None and the three discovery flags are False, also when the
\* handler went on to call gap_connect for a reconnection.
C18_DisconnectClearsConnectionState ==
  op = "disconnect_event"
  => /\ service_handles = None
     /\ char_handle = None
     /\ cccd_handle = None
     /\ conn_handle = None
     /\ ~service_discovered
     /\ ~char_discovered
     /\ ~notifications_enabled

\* a disconnect event handled after a connection, with the reconnection
\* gap_connect called by the handler
C18_ClearedBeforeReconnect ==
  /\ op = "disconnect_event"
  /\ stats.connections >= 1
  /\ Len(cmds) = 1
  /\ cmds[1].c = "gap_connect"
  /\ trail[Len(trail) - 1] = STATE_RECONNECTING
  /\ char_handle = None
  /\ ~notifications_enabled


\* C19: init_ble called with gc.mem_free() below memory_threshold returns
\* False, leaves self.ble unset (no radio activated, no callback attached)
\* and never calls change_state; called with gc.mem_free() at or above
\* memory_threshold it sets self.ble to the activated radio with the
\* callback attached, ends in Idle and returns True, unless the try block
\* raised (then it returns False in Error).
C19_InitBleChecksHeadroomFirst ==
  [][op' = "init_ble"
     => /\ hist'.free_mem[1] < memory_threshold
           => /\ ret' = "False"
              /\ ble' = ble
              /\ ble' = None
              /\ state' = state
              /\ trail' = <<state>>
        /\ hist'.free_mem[1] >= memory_threshold
           => \/ /\ ret' = "True"
                 /\ ble' # None
                 /\ state' = STATE_IDLE
              \/ /\ ret' = "False"
                 /\ state' = STATE_ERROR]_vars

\* init_ble succeeded with gc.mem_free() exactly at memory_threshold
C19_InitAtThreshold ==
  /\ op = "init_ble"
  /\ hist.free_mem = Some(memory_threshold)
  /\ ret = "True"
  /\ ble # None
  /\ state = STATE_IDLE

\* init_ble refused with gc.mem_free() one below memory_threshold
C19_InitRefusedBelowThreshold ==
  /\ op = "init_ble"
  /\ hist.free_mem = Some(memory_threshold - 1)
  /\ ret = "False"
  /\ ble = None


\* C20: the program restarts (machine.reset()) exactly when a step of
\* _handle_critical_error raises.  _handle_critical_error runs only in the
\* handler exception that takes error_count above 15, so a restart comes
\* from no other operation: not from a handler exception below the
\* threshold, not from an operation whose stack call raised, not from
\* init_ble refusing for low headroom; and the radio object is lost by a
\* restart only.
C20_RestartOnlyFromFailedReset ==
  [][/\ op' = "machine_reset"
        => /\ error_count + 1 > ErrorCeiling
           /\ ble # None
           /\ ble' = None
           /\ state' = STATE_IDLE
           /\ error_count' = 0
           /\ cmds' = <<>>
     /\ (op' = "irq_exception" \/ \E k \in 1..Len(cmds') : ~cmds'[k].ok
           \/ (op' = "init_ble" /\ ret' = "False"))
        => /\ op' # "machine_reset"
           /\ ble' = ble
     /\ (ble # None /\ ble' = None) => op' = "machine_reset"
     /\ op' = "critical_reset" => (ble' = ble /\ ble' # None)]_vars

\* the program has restarted after the sixteenth handler exception
C20_Restarted ==
  /\ op = "machine_reset"
  /\ ble = None
  /\ stats.errors = 0
  /\ error_count = 0


\* C21: whenever the machine is in Connecting for longer than
\* connection_timeout, or in Discovering for longer than discovery_timeout,
\* it later leaves that state (the driver's polling moves it out when no
\* event does).  (Violated: the driver polls is_ready() only; when no event
\* arrives the machine stays where it is after the driver has returned.)
C21_PendingStatesTimeOut ==
  /\ [](state = STATE_CONNECTING /\ check_timeout(connection_timeout)
          => <>(state # STATE_CONNECTING))
  /\ [](state = STATE_DISCOVERING /\ check_timeout(discovery_timeout)
          => <>(state # STATE_DISCOVERING))


\* C22: when gap_scan, gap_connect, gattc_discover_services or
\* gattc_discover_characteristics raises, the operation that called it ends
\* in Error, returns to its caller (False from scan_devices, None from a
\* handler) and leaves error_count and stats.errors as they were; and a
\* scan_devices call made next passes the state test and calls gap_scan.
C22_CommandFailureEndsInError ==
  [][/\ (\E k \in 1..Len(cmds') :
            /\ ~cmds'[k].ok
            /\ cmds'[k].c \in {"gap_scan", "gap_connect",
                               "gattc_discover_services",
                               "gattc_discover_characteristics"})
        => /\ state' = STATE_ERROR
           /\ ret' \in {"False", "None"}
           /\ error_count' = error_count
           /\ stats'.errors = stats.errors
     /\ (/\ op' = "scan_devices"
         /\ \E k \in 1..Len(cmds) :
               /\ ~cmds[k].ok
               /\ cmds[k].c \in {"gap_scan", "gap_connect",
                                 "gattc_discover_services",
                                 "gattc_discover_characteristics"})
        => /\ Len(cmds') = 1
           /\ cmds'[1].c = "gap_scan"
           /\ cmds'[1].ok => (state' = STATE_SCANNING /\ ret' = "True")]_vars

\* gattc_discover_characteristics raised in the service-done handler
C22_DiscoverCharacteristicsRaised ==
  /\ op = "service_done"
  /\ Len(cmds) = 1
  /\ cmds[1].c = "gattc_discover_characteristics"
  /\ ~cmds[1].ok
  /\ state = STATE_ERROR
  /\ error_count = 0


\* C23: when gattc_discover_descriptors raises in the characteristic-done
\* handler, when descriptor-done arrives with no CCCD handle recorded, or
\* when the gattc_write of the enable value raises in the descriptor-result
\* handler for the first CCCD of the connection, the handler ends in Ready
\* with notifications_enabled False; and a read_characteristic call made
\* next passes its test and calls gattc_read.  (Violated in the last part:
\* a disconnect event of another link, handled during the discovery, has
\* cleared char_handle, and the read is refused in Ready.)
C23_PartialDiscoveryEndsInReady ==
  [][/\ (\/ /\ op' = "characteristic_done"
            /\ \E k \in 1..Len(cmds') :
                  cmds'[k].c = "gattc_discover_descriptors" /\ ~cmds'[k].ok
         \/ /\ op' = "descriptor_done"
            /\ cccd_handle' = None
         \/ /\ op' = "descriptor_result"
            /\ cccd_handle = None
            /\ \E k \in 1..Len(cmds') :
                  cmds'[k].c = "gattc_write" /\ ~cmds'[k].ok)
        => /\ state' = STATE_READY
           /\ ~notifications_enabled'
     /\ (/\ op' = "read_characteristic"
         /\ \/ /\ op = "characteristic_done"
               /\ \E k \in 1..Len(cmds) :
                     cmds[k].c = "gattc_discover_descriptors" /\ ~cmds[k].ok
            \/ /\ op = "descriptor_done"
               /\ cccd_handle = None
            \/ /\ op = "descriptor_result"
               /\ \E k \in 1..Len(cmds) :
                     cmds[k].c = "gattc_write" /\ ~cmds[k].ok)
        => /\ Len(cmds') = 1
           /\ cmds'[1].c = "gattc_read"]_vars


\* C24: manage_memory collects exactly when force is set, or
\* operation_count is a multiple of gc_interval, or more than 10000 ms have
\* passed since last_gc_time.  A call that collects adds exactly one to
\* gc_collections, sets last_gc_time to the time of the call, leaves
\* min_memory at the smaller of its old value and the sampled headroom, and
\* calls emergency_cleanup exactly when the sampled headroom is below
\* memory_threshold; a call that does not collect changes no field of the
\* manager and does not call emergency_cleanup.
C24_CollectsWhenDue ==
  call.f = "manage_memory"
  => LET due == \/ call.force
                \/ call.mm.operation_count % gc_interval = 0
                \/ call.elapsed > 10000
         after == call.out.mm
     IN  /\ call.out.collected <=> due
         /\ due => /\ after.gc_collections = call.mm.gc_collections + 1
                   /\ after.min_memory <= call.mm.min_memory
                   /\ after.min_memory <= call.free_mem
                   /\ after.min_memory \in {call.mm.min_memory, call.free_mem}
                   /\ after.operation_count = call.mm.operation_count
                   /\ call.out.emergency
                        <=> call.free_mem < memory_threshold
         /\ ~due => /\ after = call.mm
                    /\ ~call.out.emergency

\* a collection made only because the interval has passed, across the
\* wrap-around of the ticks, with the headroom below the threshold
C24_CollectedAcrossWrap ==
  /\ call.f = "manage_memory"
  /\ ~call.force
  /\ call.mm.operation_count % gc_interval # 0
  /\ call.mm.last_gc_time = TICKS_PERIOD - 5000
  /\ call.elapsed = 10001
  /\ call.out.collected
  /\ call.out.mm.last_gc_time = 5001
  /\ call.out.emergency
  /\ call.out.mm.min_memory = memory_threshold - 1


\* C25: the peripheral reports a connection exactly when at least one
\* central is connected, after any connects and disconnects.  (Violated:
\* _conn_handle holds one handle and every disconnect event clears it, so
\* the disconnect of one of two centrals leaves is_connected() False while
\* the other is still connected.)
C25_ConnectedIffSomeCentral ==
  is_connected <=> per.centrals # {}

\* C26: the frame handed to gatts_notify by send_data is the whole message
\* format_message built from the readings.  (Violated: send cuts the data to
\* 20 bytes, and the message for three channels is at least 28 long.)
C26_FrameIsWholeMessage ==
  (per.op = "send_data" /\ per.frame # None)
  => per.frame[1] = format_message(per.analog_data)


\* C27: a write-done event for the CCCD handle with a non-zero status,
\* handled in Ready, leaves the machine Ready with notifications reported
\* as not enabled.  (Violated: _handle_descriptor_result sets
\* notifications_enabled as soon as gattc_write returns, and
\* _handle_write_done only prints the status.)
C27_FailedEnableWriteNotEnabled ==
  (/\ op = "write_done"
   /\ hist.done # None
   /\ cccd_handle = Some(hist.done[1])
   /\ hist.done[2] # 0
   /\ trail[1] = STATE_READY)
  => (state = STATE_READY /\ ~notifications_enabled)

\* the part of C27 that holds: the machine stays Ready
C27_FailedEnableWriteStaysReady ==
  (/\ op = "write_done"
   /\ hist.done # None
   /\ cccd_handle = Some(hist.done[1])
   /\ hist.done[2] # 0
   /\ trail[1] = STATE_READY)
  => state = STATE_READY


\* the write of the enable value to a descriptor, among the stack calls
IsEnableWrite(cmd) ==
  cmd.c = "gattc_write" /\ Len(cmd.a) = 3 /\ cmd.a[3] = <<NOTIFY_ENABLE, 0>>

\* C28: discovery commands are issued in stage order.
\* gattc_discover_characteristics is issued only by the service-done handler,
\* with a service recorded and exactly its start/end range;
\* gattc_discover_descriptors only by the characteristic-done handler, with a
\* characteristic recorded and the range [value handle, value handle + 2];
\* the enable write only by the descriptor-result handler, on the descriptor
\* it recorded as CCCD, while the descriptor stage started by
\* characteristic-done is in progress on that link.
C28_DiscoveryInStageOrder ==
  \A i \in 1..Len(cmds) :
    /\ cmds[i].c = "gattc_discover_characteristics"
       => /\ op = "service_done"
          /\ service_discovered /\ service_handles # None
          /\ cmds[i].a[2] = Some(service_handles[1])
          /\ cmds[i].a[3] = Some(service_handles[2])
          /\ cmds[i].ok => stk_proc[cmds[i].a[1][1]] = "chr"
    /\ cmds[i].c = "gattc_discover_descriptors"
       => /\ op = "characteristic_done"
          /\ char_discovered /\ char_handle # None
          /\ cmds[i].a[2] = char_handle
          /\ cmds[i].a[3] = Some(char_handle[1] + 2)
          /\ cmds[i].ok => stk_proc[cmds[i].a[1][1]] = "dsc"
    /\ IsEnableWrite(cmds[i])
       => /\ op = "descriptor_result"
          /\ cccd_handle = cmds[i].a[2]
          /\ stk_proc[cmds[i].a[1][1]] = "dsc"

\* the three stages ran and the enable write was issued
C28_EnableWriteIssued ==
  /\ op = "descriptor_result"
  /\ Len(cmds) = 1 /\ IsEnableWrite(cmds[1]) /\ cmds[1].ok
  /\ service_discovered /\ char_discovered


\* C29: in every reachable state, a characteristic handle implies a service
\* handle range, and a CCCD handle implies a characteristic handle.
\* (Violated: the disconnect event of another link clears the handles in the
\* middle of a discovery, and the next result event sets its handle alone.)
C29_HandlesNested ==
  /\ char_handle # None => service_handles # None
  /\ cccd_handle # None => char_handle # None


\* C30: a scan result handled while scanning whose RSSI is below
\* rssi_threshold is counted in devices_analyzed but records no target and
\* makes no stack call (no stop of the scan, no connect), whatever its
\* address and advertising data; a result whose RSSI equals the threshold
\* goes to the matcher, so a matching one is recorded as target and the
\* connection is started.
C30_WeakResultCountedNotRecorded ==
  [][\A c \in Candidates, so \in BOOLEAN, co \in BOOLEAN :
       /\ (state = STATE_SCANNING
           /\ handle_scan_result(0, c[1], RssiThreshold - 1, c[2], so, co))
          => /\ stats'.devices_analyzed = stats.devices_analyzed + 1
             /\ target_device' = target_device
             /\ target_found' = target_found
             /\ cmds' = <<>>
             /\ state' = STATE_SCANNING
       /\ (state = STATE_SCANNING
           /\ handle_scan_result(0, c[1], RssiThreshold, c[2], so, co)
           /\ is_target_device(JoinHex(c[1]), ExtractDeviceName(c[2]),
                               ExtractServiceUuids(c[2]), target_mac,
                               device_name, SENSOR_SERVICE_UUID))
          => /\ stats'.devices_analyzed = stats.devices_analyzed + 1
             /\ target_found'
             /\ target_device' # None
             /\ target_device'[1].rssi = RssiThreshold
             /\ "gap_connect" \in CmdNames(cmds')]_vars

\* a result at the threshold was counted and recorded as target
C30_ThresholdResultRecorded ==
  /\ op = "scan_result"
  /\ stats.devices_analyzed = 1
  /\ target_found
  /\ target_device # None
  /\ target_device[1].rssi = RssiThreshold


\* C31: a scan result handled while the state is Scanning adds exactly one
\* to devices_analyzed, and one that does not match (RSSI below the
\* threshold, or refused by the matcher) leaves the state Scanning and the
\* target unset; a scan result delivered in any other state changes nothing
\* of the client or the stack, the counter included.
C31_ScanResultCounted ==
  [][\A c \in Candidates, r \in Rssis, so \in BOOLEAN, co \in BOOLEAN :
       handle_scan_result(0, c[1], r, c[2], so, co)
       => IF state = STATE_SCANNING
          THEN /\ stats'.devices_analyzed = stats.devices_analyzed + 1
               /\ (r < RssiThreshold
                   \/ ~is_target_device(JoinHex(c[1]), ExtractDeviceName(c[2]),
                                        ExtractServiceUuids(c[2]), target_mac,
                                        device_name, SENSOR_SERVICE_UUID))
                  => /\ state' = STATE_SCANNING
                     /\ target_device' = None
                     /\ ~target_found'
                     /\ cmds' = <<>>
          ELSE UNCHANGED <<prog, stack, hist>>]_vars

\* a result was counted while scanning and no target was recorded
C31_CountedNotMatched ==
  /\ op = "scan_result"
  /\ state = STATE_SCANNING
  /\ stats.devices_analyzed = 1
  /\ target_device = None
  /\ ~target_found

\* a result was delivered outside Scanning, after the target was recorded
C31_ResultOutsideScanning ==
  /\ op = "scan_result"
  /\ state # STATE_SCANNING
  /\ trail = <<state>>


\* the fields no data event may touch: the connection state, the handles
\* and the discovery flags
LinkFields ==
  <<state, conn_handle, service_handles, char_handle, cccd_handle,
    service_discovered, char_discovered, notifications_enabled>>

\* C32: stats['notifications'] grows by one exactly at a notify event whose
\* value handle is the known characteristic handle, stats['reads'] likewise
\* at a read-result event, neither counter changes at any other step, and
\* notify, read-result, read-done and write-done leave the connection state,
\* the handles and the discovery flags alone.
C32_DataEventsOnlyCount ==
  [][/\ \A h \in ConnHandles, v \in ValueHandles \cup DescriptorHandles :
          /\ handle_notify(h, v)
             => /\ stats'.notifications = stats.notifications
                      + (IF char_handle # None /\ char_handle[1] = v THEN 1 ELSE 0)
                /\ stats'.reads = stats.reads
                /\ UNCHANGED LinkFields
          /\ handle_read_result(h, v)
             => /\ stats'.reads = stats.reads
                      + (IF char_handle # None /\ char_handle[1] = v THEN 1 ELSE 0)
                /\ stats'.notifications = stats.notifications
                /\ UNCHANGED LinkFields
          /\ \A st \in Statuses :
               (handle_io_done("read_done", h, v, st)
                \/ handle_io_done("write_done", h, v, st))
               => UNCHANGED <<LinkFields, stats>>
     /\ (stats'.notifications # stats.notifications) => op' = "notify"
     /\ (stats'.reads # stats.reads) => op' = "read_result"]_vars

\* one notification and one read result were counted, on the characteristic
\* handle found by discovery
C32_BothCounted ==
  /\ stats.notifications = 1
  /\ stats.reads = 1
  /\ char_handle # None
  /\ op \in {"notify", "read_result"}


\* C33: in every reachable state, Ready implies that a connection handle
\* and a characteristic handle are known, so get_status reports ready
\* whenever it reports the state READY.  (Violated: a disconnect event for
\* another link clears conn_handle during discovery, and the discovery that
\* goes on ends in Ready.)
C33_ReadyHasHandles ==
  state = STATE_READY => (conn_handle # None /\ char_handle # None)


\* C34: whenever the state is Idle or Scanning no connection handle is held
\* (get_status never reports connected with state IDLE or SCANNING).
\* (Violated: scan_devices accepted from Error, and the critical-error reset,
\* change the state and leave conn_handle as it was.)
C34_NoHandleWhenIdleOrScanning ==
  state \in {STATE_IDLE, STATE_SCANNING} => conn_handle = None

\* the same after the critical-error reset alone
C34_NoHandleAfterCriticalReset ==
  (op = "critical_reset" /\ state = STATE_IDLE) => conn_handle = None


\* C35: after a connect-complete event that issued service discovery for the
\* new connection, the service handle range, the characteristic handle, the
\* CCCD handle and the three discovery flags are all unset.  (Violated:
\* handle_connect clears none of them, so what an earlier connection left
\* behind without a disconnect event is still there.)
C35_ConnectStartsClean ==
  (op = "connect" /\ "gattc_discover_services" \in CmdNames(cmds))
  => /\ service_handles = None
     /\ char_handle = None
     /\ cccd_handle = None
     /\ ~service_discovered
     /\ ~char_discovered
     /\ ~notifications_enabled


\* the states of tr
Visited(tr) == {tr[i] : i \in 1..Len(tr)}

\* C36: between two event dispatches the state is never Connected or
\* Reconnecting: a connect event that passed through Connected ends in
\* Discovering or Error, and a disconnect event that passed through
\* Reconnecting ends in Connecting or Error.
C36_ConnectedAndReconnectingTransient ==
  /\ state \notin {STATE_CONNECTED, STATE_RECONNECTING}
  /\ STATE_CONNECTED \in Visited(trail)
     => (op = "connect" /\ state \in {STATE_DISCOVERING, STATE_ERROR})
  /\ STATE_RECONNECTING \in Visited(trail)
     => (op = "disconnect_event" /\ state \in {STATE_CONNECTING, STATE_ERROR})

\* a disconnect event passed through Reconnecting after a connect event had
\* passed through Connected
C36_PassedThroughReconnecting ==
  /\ op = "disconnect_event"
  /\ STATE_RECONNECTING \in Visited(trail)
  /\ stats.connections > 0


\* C37: for every headroom the three threshold tests agree:
\* check_memory_health reports LOW exactly when init_ble would refuse with
\* that headroom, and exactly when a collection that samples it runs the
\* emergency cleanup.  (Violated at headroom = memory_threshold:
\* check_memory_health reports LOW unless the headroom is above the
\* threshold, the other two act only below it.)
C37_ThresholdTestsAgree ==
  call.f = "check_memory_health"
  => /\ (call.out.health = "LOW") <=> LowMemory(call.free_mem)
     /\ (call.out.health = "LOW")
        <=> manage_memory(call.mm, TRUE, 0, call.free_mem).emergency


\* C38: against the companion peripheral's GATT table, characteristic
\* discovery ends with a characteristic handle recorded and not in Error.
\* (Violated: the client looks for a characteristic with the UUID of the
\* service, 6E400000-..., and the peripheral's characteristics are
\* 6E400003-... and 6E400002-..., so none is recorded and
\* characteristic-done ends in Error.)
C38_CompanionDiscoveryFindsCharacteristic ==
  op = "characteristic_done" => (state # STATE_ERROR /\ char_handle # None)

\* against the companion peripheral the client is never Ready, records no
\* characteristic handle and counts no notification
C38_CompanionNeverReady ==
  /\ state # STATE_READY
  /\ char_handle = None
  /\ stats.notifications = 0


\* C39: parsing inverts the payload builders.  From
\* advertising_payload(name, services) with a non-empty name and 128-bit
\* UUIDs, extract_device_name returns the name and extract_service_uuids the
\* UUIDs in order; from the adv_data of _advertise they return the first 10
\* bytes of the name and no UUIDs.  (Violated for _advertise: the name is
\* cut by bytes, and a cut inside a two-byte character leaves bytes that do
\* not decode, so no name is returned.)
C39_ParsingInvertsBuilders ==
  /\ call.f = "advertising_payload"
     => /\ call.out_name = Some(Utf8Encode(call.name))
        /\ call.out_uuids = call.services
  /\ call.f = "_advertise"
     => /\ call.out_name = Some(Slice(Utf8Encode(call.name), 0, 10))
        /\ call.out_uuids = <<>>

\* the part of C39 that holds: advertising_payload is inverted for every
\* name and service list, and _advertise for every name whose first 10
\* bytes are whole characters
C39_InvertedForWholeCharacters ==
  /\ call.f = "advertising_payload"
     => /\ call.out_name = Some(Utf8Encode(call.name))
        /\ call.out_uuids = call.services
  /\ (call.f = "_advertise"
      /\ Utf8Valid(Slice(Utf8Encode(call.name), 0, 10)))
     => /\ call.out_name = Some(Slice(Utf8Encode(call.name), 0, 10))
        /\ call.out_uuids = <<>>

=============================================================================
